---- MODULE Spec2Model ----
(***************************************************************************)
(* Model of the GIF stream decoder of Flick-Out.ino (class GifClass): the  *)
(* buffered stream reader, the container parser and the LZW frame          *)
(* decompressor, together with the session calls gd_open_gif,              *)
(* gd_get_frame, gd_rewind and gd_close_gif.                               *)
(*                                                                         *)
(* A session call is one action, except gd_get_frame, which is followed    *)
(* loop by loop: every pass of its block loop is one action                *)
(* (get_frame_begin for the first pass, read_block for the passes after an *)
(* extension block; the pass that meets an image block includes read_image *)
(* and the set-up of read_image_data), and every iteration of the code     *)
(* loop of read_image_data is one further action (decode_step), so that    *)
(* the code width and the entry count are visible at every code read.      *)
(* While pc is "blocks" or "decode" nothing else can run.                  *)
(*                                                                         *)
(* The code is sequential; each function is an operator from the state it  *)
(* is entered with to the state it leaves, and a sequence of statements is *)
(* the composition of such operators.                                      *)
(***************************************************************************)
EXTENDS Integers, Sequences, FiniteSets, TLC

VARIABLES
  file,       \* the bytes of the source the File object reads
  rd,         \* GifClass reader members and the File cursor
  gif,        \* the gd_GIF session (all fields but the table)
  table,      \* gif->table: nentries and the entries written so far
  frame,      \* the caller's pixel buffer (0-based function) or <<>>
  dec,        \* locals of read_image_data while a frame is decoded
  pc,         \* "unopened" | "ready" | "blocks" | "decode" | "failed" |
              \* "closed" | "ub"
  res,        \* result of the last gd_get_frame: 1, 0, -1, or -2 for none yet
  hist,       \* observations of the run the properties are stated over
  input,      \* description of the generated source (what was encoded)
  player,     \* playGif and playLoopingGif: the statics of playLoopingGif
              \* and every file, session and frame buffer they created
  sketch      \* loop(): currentState, the button globals, the two pins

vars == <<file, rd, gif, table, frame, dec, pc, res, hist, input, player, sketch>>

(***************************************************************************)
(* Fixed-width arithmetic                                                  *)
(***************************************************************************)
Pow2(n) == 2 ^ n

MIN(A, B) == IF A < B THEN A ELSE B
MAX(A, B) == IF A > B THEN A ELSE B

\* bit i of x, and the bitwise operators on operands below 2^16
Bit(x, i) == (x \div Pow2(i)) % 2
BitAnd4(a, b) ==
  Bit(a, 0) * Bit(b, 0) + 2 * Bit(a, 1) * Bit(b, 1)
    + 4 * Bit(a, 2) * Bit(b, 2) + 8 * Bit(a, 3) * Bit(b, 3)
BitAnd(a, b) ==
  (BitAnd4(a, b) + 16 * BitAnd4(a \div 16, b \div 16))
    + (256 * BitAnd4(a \div 256, b \div 256) + 4096 * BitAnd4(a \div 4096, b \div 4096))
BitOr(a, b) == a + b - BitAnd(a, b)

Shr(a, n) == a \div Pow2(n)
Shl(a, n) == a * Pow2(n)
U8(x)  == x % 256
U16(x) == x % 65536
\* int16_t wrap-around of a stored value
I16(x) == ((x + 32768) % 65536) - 32768
\* C division of integers truncates toward zero
CDiv(a, b) == IF a >= 0 THEN a \div b ELSE -((-a) \div b)

(***************************************************************************)
(* Sequencing of statements: x is computed, then K is applied to its value *)
(***************************************************************************)
Then(x, K(_)) == CHOOSE v \in {K(y) : y \in {x}} : TRUE

(***************************************************************************)
(* Program constants                                                       *)
(***************************************************************************)
GIF_BUF_SIZE == 1024
TABLE_SIZE   == 4096       \* 0x1000 entries allocated by new_table
ROOT_PREFIX  == 4095       \* 0xFFF, the prefix of a root entry
Uninit       == -1         \* a field of malloc'ed memory never written
LoopFuel     == 8          \* passes after which a loop counts as hung

(***************************************************************************)
(* Stream reader: gif_buf, gif_buf_idx, gif_buf_last_idx, file_pos and the *)
(* position of the File object (fd_pos).  gif_buf holds the bytes of the   *)
(* fills so far; the static GifClass object starts zero-filled, so an      *)
(* index below GIF_BUF_SIZE that no fill reached reads 0.  oob records a   *)
(* read of gif_buf at an index outside the array, hang a loop of the       *)
(* parser that did not end within LoopFuel iterations.                     *)
(***************************************************************************)
ReaderInit ==
  [gif_buf |-> <<>>, gif_buf_idx |-> 0, gif_buf_last_idx |-> 0,
   file_pos |-> 0, fd_pos |-> 0, oob |-> FALSE, hang |-> FALSE]

\* what File::read can still deliver, at most GIF_BUF_SIZE bytes
FdAvail(r) ==
  IF r.fd_pos >= 0 /\ r.fd_pos < Len(file)
  THEN MIN(Len(file) - r.fd_pos, GIF_BUF_SIZE) ELSE 0

\* gif_buf_last_idx = fd->read(gif_buf, GIF_BUF_SIZE); gif_buf_idx = 0
FdFill(r, n) ==
  [r EXCEPT !.gif_buf = [i \in 1..MAX(n, Len(r.gif_buf)) |->
                           IF i <= n THEN file[r.fd_pos + i] ELSE r.gif_buf[i]],
            !.fd_pos = r.fd_pos + n,
            !.gif_buf_last_idx = n,
            !.gif_buf_idx = 0]

Refill(r) ==
  IF r.gif_buf_idx = r.gif_buf_last_idx THEN FdFill(r, FdAvail(r)) ELSE r

BufAt(r, i) ==
  IF i >= 0 /\ i < Len(r.gif_buf) THEN r.gif_buf[i + 1] ELSE 0

\* file_pos++; return gif_buf[gif_buf_idx++]
Deliver(r) ==
  [r |-> [r EXCEPT !.file_pos = I16(r.file_pos + 1),
                   !.gif_buf_idx = I16(r.gif_buf_idx + 1),
                   !.oob = r.oob \/ r.gif_buf_idx < 0 \/ r.gif_buf_idx >= GIF_BUF_SIZE],
   b |-> BufAt(r, r.gif_buf_idx)]

\* uint8_t gif_buf_read(File *fd): the reader after the read and the byte
gif_buf_read(r) == Deliver(Refill(r))

Join16(lo, hi) == [r |-> hi.r, v |-> U16(lo + Shl(hi.b, 8))]
Read16Hi(lo) == Join16(lo.b, gif_buf_read(lo.r))

\* uint16_t gif_buf_read16(File *fd): low byte first
gif_buf_read16(r) == Read16Hi(gif_buf_read(r))

\* file_pos++; *(dest++) = gif_buf[gif_buf_idx++]
ReadnPut(bytes, b) == [r |-> b.r, bytes |-> Append(bytes, b.b)]
ReadnNext(a) == ReadnPut(a.bytes, gif_buf_read(a.r))

\* the while (len--) loop, a the reader and the bytes stored so far
RECURSIVE ReadnLoop(_, _)
ReadnLoop(a, len) ==
  IF Len(a.bytes) >= len THEN a
  ELSE Then(ReadnNext(a), LAMBDA b : ReadnLoop(b, len))

ReadnJoin(a, b) == [r |-> b.r, bytes |-> a.bytes \o b.bytes]

\* the loop over len bytes: the first half of the passes, then the rest
RECURSIVE ReadnSplit(_, _)
ReadnSplit(r, len) ==
  IF len <= 4 THEN ReadnLoop([r |-> r, bytes |-> <<>>], len)
  ELSE Then(ReadnSplit(r, len \div 2),
            LAMBDA a : ReadnJoin(a, ReadnSplit(a.r, len - len \div 2)))

\* int16_t gif_buf_read(File *fd, uint8_t *dest, int16_t len)
gif_buf_readn(r, len) == ReadnSplit(r, len)

\* bool gif_buf_seek(File *fd, int16_t len)
gif_buf_seek(r, len) ==
  IF len > r.gif_buf_last_idx - r.gif_buf_idx
  THEN [r EXCEPT !.fd_pos = r.file_pos + len - (r.gif_buf_last_idx - r.gif_buf_idx),
                 !.gif_buf_idx = r.gif_buf_last_idx,
                 !.file_pos = I16(r.file_pos + len)]
  ELSE [r EXCEPT !.gif_buf_idx = I16(r.gif_buf_idx + len),
                 !.file_pos = I16(r.file_pos + len)]

(***************************************************************************)
(* Colour tables                                                           *)
(***************************************************************************)
\* variant of Rgb565 that keeps five bits of green
Rgb555(r, g, b) ==
  BitOr(BitOr(Shl(BitAnd(r, 248), 8), Shl(BitAnd(g, 248), 3)), Shr(BitAnd(b, 248), 3))

Rgb565(r, g, b) ==
  BitOr(BitOr(Shl(BitAnd(r, 248), 8), Shl(BitAnd(g, 252), 3)), Shr(BitAnd(b, 248), 3))

PaletteOf(c, num_colors) ==
  [r |-> c.r,
   pal |-> [len |-> num_colors,
            colors |-> [i \in 1..num_colors |->
               Rgb565(c.bytes[3 * i - 2], c.bytes[3 * i - 1], c.bytes[3 * i])]]]

\* void read_palette(File *fd, gd_Palette *dest, int16_t num_colors)
read_palette(r, num_colors) == PaletteOf(gif_buf_readn(r, 3 * num_colors), num_colors)

(***************************************************************************)
(* Parsing a run of fields: p.vals collects the values read, in order.     *)
(* The widths ws name the call that reads each field: 1 is gif_buf_read,   *)
(* 2 is gif_buf_read16.                                                    *)
(***************************************************************************)
PInit(r) == [r |-> r, vals |-> <<>>]
Push(p, a) == [r |-> a.r, vals |-> Append(p.vals, a.b)]
Push16(p, a) == [r |-> a.r, vals |-> Append(p.vals, a.v)]
PRead(p) == Push(p, gif_buf_read(p.r))
PRead16(p) == Push16(p, gif_buf_read16(p.r))
PNext(p, w) == IF w = 2 THEN PRead16(p) ELSE PRead(p)

\* the fields of ws that p does not hold yet, read in order
RECURSIVE PRun(_, _)
PRun(p, ws) ==
  IF Len(p.vals) >= Len(ws) THEN p
  ELSE Then(PNext(p, ws[Len(p.vals) + 1]), LAMBDA q : PRun(q, ws))

(***************************************************************************)
(* Session: gd_open_gif                                                    *)
(***************************************************************************)
SIG_GIF == <<71, 73, 70>>        \* "GIF"
SIG_89a == <<56, 57, 97>>        \* "89a"
NETSCAPE == <<78, 69, 84, 83, 67, 65, 80, 69>>

ZeroPalette == [len |-> 0, colors |-> <<>>]
ZeroGce == [delay |-> 0, tindex |-> 0, disposal |-> 0, input |-> 0, transparency |-> 0]

\* calloc(1, sizeof(*gif)): every field zero
ZeroGif ==
  [anim_start |-> 0, width |-> 0, height |-> 0, depth |-> 0, loop_count |-> 0,
   gce |-> ZeroGce, palette |-> "gct", lct |-> ZeroPalette, gct |-> ZeroPalette,
   fx |-> 0, fy |-> 0, fw |-> 0, fh |-> 0, bgindex |-> 0,
   processed_first_frame |-> FALSE]

NoEntries == [k \in {} |-> 0]

\* gd_Table *new_table(): malloc, nothing written
new_table == [nentries |-> Uninit, entries |-> NoEntries]

\* return NULL
OpenNull(r) == [ok |-> FALSE, r |-> r, gif |-> ZeroGif]

\* the session gd_open_gif returns; v = <<width, height, fdsz, bgidx, aspect>>
OpenGif(v, pal) ==
  [ok |-> TRUE, r |-> pal.r,
   gif |-> [ZeroGif EXCEPT !.width = v[1], !.height = v[2],
                           !.depth = BitAnd(Shr(v[3], 4), 7) + 1,
                           !.gct = pal.pal, !.palette = "gct",
                           !.bgindex = v[4],
                           !.anim_start = pal.r.file_pos,
                           !.processed_first_frame = FALSE]]

OpenTable(p) ==
  Then(read_palette(p.r, Shl(1, BitAnd(p.vals[3], 7) + 1)), LAMBDA pal : OpenGif(p.vals, pal))

\* variant of HasGlobalTable that tests bit 6 of the packed byte
HasGlobalTableBit6(fdsz) == BitAnd(fdsz, 64) # 0

\* if (!(fdsz & 0x80)) return NULL
HasGlobalTable(fdsz) == BitAnd(fdsz, 128) # 0

OpenScreen(p) ==
  IF ~HasGlobalTable(p.vals[3]) THEN OpenNull(p.r) ELSE Then(PRun(p, <<2, 2, 1, 1, 1>>), OpenTable)

\* memcmp(sigver, "89a", 3)
VersionOk(bytes) == bytes = SIG_89a

OpenVer(s) ==
  IF ~VersionOk(s.bytes) THEN OpenNull(s.r)
  ELSE Then(PRun(PInit(s.r), <<2, 2, 1>>), OpenScreen)

OpenSig(s) ==
  IF s.bytes # SIG_GIF THEN OpenNull(s.r) ELSE Then(gif_buf_readn(s.r, 3), OpenVer)

OpenReset(r) ==
  [r EXCEPT !.gif_buf_last_idx = GIF_BUF_SIZE, !.gif_buf_idx = GIF_BUF_SIZE,
            !.file_pos = 0]

\* gd_GIF *gd_open_gif(File *fd): ok = FALSE is the NULL return
gd_open_gif(r) == Then(gif_buf_readn(OpenReset(r), 3), OpenSig)

(***************************************************************************)
(* Extension blocks; x is [r, g]: the reader and the session               *)
(***************************************************************************)
\* gif_buf_read(gif->fd, &len, 1); gif_buf_seek(gif->fd, len)
DiscardSkip(l) == [r |-> gif_buf_seek(l.r, l.b), b |-> l.b]
DiscardOne(r) == Then(gif_buf_read(r), DiscardSkip)

DiscardEnd(x, fuel) ==
  IF x.b = 0 \/ x.r.oob THEN x.r ELSE [x.r EXCEPT !.hang = TRUE]

\* the do .. while (len) loop of discard_sub_blocks, x the pass just made
RECURSIVE DiscardLoop(_, _)
DiscardLoop(x, fuel) ==
  IF x.b = 0 \/ x.r.oob \/ fuel = 0 THEN DiscardEnd(x, fuel)
  ELSE Then(DiscardOne(x.r), LAMBDA y : DiscardLoop(y, fuel - 1))

\* void discard_sub_blocks(gd_GIF *gif)
discard_sub_blocks(r) == Then(DiscardOne(r), LAMBDA y : DiscardLoop(y, LoopFuel))

\* void read_plain_text_ext(gd_GIF *gif): gif->plain_text is never set
read_plain_text_ext(x) ==
  [r |-> discard_sub_blocks(gif_buf_seek(x.r, 13)), g |-> x.g]

\* variant of GceStore that keeps the transparent index when the
\* transparency flag is clear
GceStoreFlagged(g, p) ==
  [r |-> gif_buf_seek(p.r, 1),
   g |-> [g EXCEPT !.gce = [disposal |-> BitAnd(Shr(p.vals[1], 2), 3),
                            input |-> BitAnd(p.vals[1], 2),
                            transparency |-> BitAnd(p.vals[1], 1),
                            delay |-> p.vals[2],
                            tindex |-> IF BitAnd(p.vals[1], 1) = 1 THEN p.vals[3]
                                       ELSE g.gce.tindex]]]

\* p.vals = <<rdit, delay, tindex>>
GceStore(g, p) ==
  [r |-> gif_buf_seek(p.r, 1),
   g |-> [g EXCEPT !.gce = [disposal |-> BitAnd(Shr(p.vals[1], 2), 3),
                            input |-> BitAnd(p.vals[1], 2),
                            transparency |-> BitAnd(p.vals[1], 1),
                            delay |-> p.vals[2],
                            tindex |-> p.vals[3]]]]

\* void read_graphic_control_ext(gd_GIF *gif)
read_graphic_control_ext(x) ==
  GceStore(x.g, PRun(PInit(gif_buf_seek(x.r, 1)), <<1, 2, 1>>))

\* void read_comment_ext(gd_GIF *gif): gif->comment is never set
read_comment_ext(x) == [r |-> discard_sub_blocks(x.r), g |-> x.g]

AppLoop(g, lc) ==
  [r |-> gif_buf_seek(lc.r, 1), g |-> [g EXCEPT !.loop_count = lc.v]]
AppAuth(g, id, auth) ==
  IF id = NETSCAPE THEN AppLoop(g, gif_buf_read16(gif_buf_seek(auth.r, 2)))
  ELSE [r |-> discard_sub_blocks(auth.r), g |-> g]
AppId(g, id) == Then(gif_buf_readn(id.r, 3), LAMBDA auth : AppAuth(g, id.bytes, auth))

\* void read_application_ext(gd_GIF *gif): gif->application is never set
read_application_ext(x) ==
  Then(gif_buf_readn(gif_buf_seek(x.r, 1), 8), LAMBDA id : AppId(x.g, id))

ExtDispatch(label, x) ==
  CASE label = 1   -> read_plain_text_ext(x)
    [] label = 249 -> read_graphic_control_ext(x)
    [] label = 254 -> read_comment_ext(x)
    [] label = 255 -> read_application_ext(x)
    [] OTHER       -> x
Labelled(x, label) == [r |-> x.r, g |-> x.g, label |-> label]
ExtLabel(g, label) == Labelled(ExtDispatch(label.b, [r |-> label.r, g |-> g]), label.b)

\* void read_ext(gd_GIF *gif)
read_ext(x) == Then(gif_buf_read(x.r), LAMBDA label : ExtLabel(x.g, label))

\* one pass of the while (1) loop of gd_get_frame; x is [r, g].  kind tells
\* how the pass ends: "image" (break), "eos" (return 0), "error" (return -1),
\* "ext" (read_ext returned, the loop goes on), "ub"
\* sep is the separator byte the pass decided on, pos its offset in the
\* file, label the label of the extension block read_ext read
BlockOf(kind, x, pos) ==
  [kind |-> kind, r |-> x.r, g |-> x.g, sep |-> 33, pos |-> pos, label |-> x.label]
BlockExt(x, pos) == BlockOf(IF x.r.oob \/ x.r.hang THEN "ub" ELSE "ext", x, pos)

\* the pass ends on the byte s.b, read at offset file_pos - 1
BlockEnd(kind, g, s) ==
  [kind |-> kind, r |-> s.r, g |-> g, sep |-> s.b, pos |-> s.r.file_pos - 1,
   label |-> -1]

\* variant of BlockKind that takes the trailer byte for an unknown block
BlockKindNoTrailer(g, s) ==
  IF s.r.oob THEN BlockEnd("ub", g, s)
  ELSE IF s.b = 44 THEN BlockEnd("image", g, s)
  ELSE IF s.b = 33
  THEN Then(read_ext([r |-> s.r, g |-> g]), LAMBDA x : BlockExt(x, s.r.file_pos - 1))
  ELSE BlockEnd("error", g, s)

\* the separator byte read: ',' image, ';' trailer, '!' extension
BlockKind(g, s) ==
  IF s.r.oob THEN BlockEnd("ub", g, s)
  ELSE IF s.b = 44 THEN BlockEnd("image", g, s)
  ELSE IF s.b = 59 THEN BlockEnd("eos", g, s)
  ELSE IF s.b = 33
  THEN Then(read_ext([r |-> s.r, g |-> g]), LAMBDA x : BlockExt(x, s.r.file_pos - 1))
  ELSE BlockEnd("error", g, s)

\* variant of BlockSep that takes a zero byte for the separator
BlockSepNoSkip(g, a) == BlockKind(g, a)

\* if (sep == 0) gif_buf_read(gif->fd, (uint8_t *)&sep, 1)
BlockSep(g, a) ==
  Then(IF a.b = 0 THEN gif_buf_read(a.r) ELSE a, LAMBDA s : BlockKind(g, s))
BlockPass(x) == Then(gif_buf_read(x.r), LAMBDA a : BlockSep(x.g, a))

(***************************************************************************)
(* Dictionary table.  entries is a function on the indices written since   *)
(* new_table; an entry or a field never written holds Uninit.  What was    *)
(* written stays readable after a clear code or a new frame (stale).       *)
(***************************************************************************)
UninitEntry == [len |-> Uninit, prefix |-> Uninit, suffix |-> Uninit]

EntryAt(t, k) == IF k \in DOMAIN t.entries THEN t.entries[k] ELSE UninitEntry

PutEntry(t, k, e) ==
  IF k \in DOMAIN t.entries THEN [t EXCEPT !.entries[k] = e]
  ELSE [t EXCEPT !.entries = (k :> e) @@ t.entries]

\* void reset_table(gd_Table *table, uint16_t key_size)
reset_table(t, key_size) ==
  [nentries |-> I16(Shl(1, key_size) + 2),
   entries  |-> [i \in (DOMAIN t.entries) \cup (0..(Shl(1, key_size) - 1)) |->
                   IF i < Shl(1, key_size)
                   THEN [len |-> 1, prefix |-> ROOT_PREFIX, suffix |-> U8(i)]
                   ELSE t.entries[i]]]

\* variant of AddRet that reports the count before a power of two
AddRetEarly(n) == IF BitAnd(n + 1, n) = 0 THEN 1 ELSE 0

\* the value add_entry returns for the new entry count n
AddRet(n) == IF BitAnd(n, n - 1) = 0 THEN 1 ELSE 0

\* int32_t add_entry(gd_Table *table, int32_t len, uint16_t prefix, uint8_t suffix)
add_entry(t, len, prefix, suffix) ==
  [t |-> [PutEntry(t, t.nentries, [len |-> len, prefix |-> prefix, suffix |-> suffix])
            EXCEPT !.nentries = I16(t.nentries + 1)],
   ret |-> AddRet(I16(t.nentries + 1))]

(***************************************************************************)
(* Bit reader; k is [r, sub_len, shift, byte, key]                         *)
(***************************************************************************)
SetLen(k, a) == [k EXCEPT !.r = a.r, !.sub_len = a.b]
SetByte(k, a) == [k EXCEPT !.r = a.r, !.byte = a.b, !.sub_len = U8(k.sub_len - 1)]
\* variant of TakeLen that takes every byte of the data as code bits
TakeLenNever(k) == k

\* if (*sub_len == 0) gif_buf_read(gif->fd, sub_len, 1)
TakeLen(k) == IF k.sub_len = 0 THEN SetLen(k, gif_buf_read(k.r)) ELSE k
\* gif_buf_read(gif->fd, byte, 1); (*sub_len)--
TakeByte(k) == Then(k, LAMBDA l : SetByte(l, gif_buf_read(l.r)))

\* key |= ((uint16_t)((*byte) >> rpad)) << bits_read
OrFrag(k, rpad, bits_read) ==
  [k EXCEPT !.key = BitOr(k.key, U16(Shl(Shr(k.byte, rpad), bits_read)))]

\* the for loop of get_key
RECURSIVE GetKeyLoop(_, _, _)
GetKeyFrag(k, key_size, bits_read, rpad) ==
  GetKeyLoop(OrFrag(k, rpad, bits_read), key_size,
             bits_read + MIN(key_size - bits_read, 8 - rpad))
GetKeyLoop(k, key_size, bits_read) ==
  IF bits_read >= key_size THEN k
  ELSE Then(IF (k.shift + bits_read) % 8 = 0 THEN TakeByte(TakeLen(k)) ELSE k,
            LAMBDA b : GetKeyFrag(b, key_size, bits_read, (k.shift + bits_read) % 8))

GetKeyEnd(k, key_size) ==
  [k EXCEPT !.key = BitAnd(k.key, Shl(1, key_size) - 1),
            !.shift = (k.shift + key_size) % 8]

\* uint16_t get_key(gd_GIF *gif, uint16_t key_size, uint8_t *sub_len,
\*                  uint8_t *shift, uint8_t *byte)
get_key(r, key_size, sub_len, shift, byte) ==
  GetKeyEnd(GetKeyLoop([r |-> r, sub_len |-> sub_len, shift |-> shift,
                        byte |-> byte, key |-> 0], key_size, 0), key_size)

(***************************************************************************)
(* Interlace row mapping                                                   *)
(***************************************************************************)
Pass4(y) == y * 2 + 1
Pass3(h, y) == IF y < CDiv(h - 3, 4) + 1 THEN y * 4 + 2 ELSE Pass4(y - (CDiv(h - 3, 4) + 1))
Pass2(h, y) == IF y < CDiv(h - 5, 8) + 1 THEN y * 8 + 4 ELSE Pass3(h, y - (CDiv(h - 5, 8) + 1))

\* int16_t interlaced_line_index(int16_t h, int16_t y)
interlaced_line_index(h, y) ==
  IF y < CDiv(h - 1, 8) + 1 THEN y * 8 ELSE Pass2(h, y - (CDiv(h - 1, 8) + 1))

(***************************************************************************)
(* Observations (hist).  None of them is read by the decoder.              *)
(*   calls    gd_get_frame calls begun since open                          *)
(*   frames   frames decoded since open                                    *)
(*   blk      image blocks begun since open or the last rewind             *)
(*   passes   passes of the block loop of the current (last) gd_get_frame  *)
(*   nth      1 + frames decoded before the image the current (last) call  *)
(*            decodes, 0 when the call reached no image                    *)
(*   rewinds  gd_rewind calls since open                                   *)
(*   sincerw  gd_get_frame calls returned since the last rewind, -1 before *)
(*   pre      frame[] when the current (last) gd_get_frame call began      *)
(*   first    frame[] when the first gd_get_frame call since open returned *)
(*   emit     pixels emitted by the current (last) call: linear position,  *)
(*            index of frame[], pixel value, stored or skipped             *)
(*   reads    codes read for the current (last) image: width used, entry   *)
(*            count at the read, code                                      *)
(*   strs     strings emitted for the current (last) image: the code, the   *)
(*            output cursor before it, the length of its string            *)
(*   ops      reader operations made on the open stream outside             *)
(*            gd_get_frame: kind, offset p in the source of the next byte  *)
(*            to deliver before it, bytes n asked for, value b delivered,  *)
(*            whether n fitted in the bytes buffered, the position fd of   *)
(*            the File and whether the buffer is empty after it            *)
(*   sep      the separator byte the last pass of the block loop decided   *)
(*            on, seppos its file offset, label the label of the extension *)
(*            block the pass read, -1 when it read none                    *)
(*   fault    why pc = "ub": "oob" (gif_buf read outside the array),       *)
(*            "uninit" (table entry never written), "frame_oob" (store     *)
(*            outside frame[]), "divzero" (fw = 0), "hang" (a loop that    *)
(*            did not end within LoopFuel passes), "table_oob" (store      *)
(*            outside the 4096 entries of the table)                       *)
(***************************************************************************)
HistInit ==
  [calls |-> 0, frames |-> 0, blk |-> 0, passes |-> 0, nth |-> 0, rewinds |-> 0,
   sincerw |-> -1,
   pre |-> <<>>, first |-> <<>>, emit |-> {}, reads |-> <<>>, strs |-> <<>>, ops |-> <<>>,
   fault |-> "none",
   sep |-> -1, seppos |-> -1, label |-> -1]

Read(size, n, key) == [size |-> size, n |-> n, key |-> key]

String(key, at, len) == [key |-> key, at |-> at, len |-> len]

(***************************************************************************)
(* The machine a call runs on: m = [r, g, t, d, f, h, pc, res]             *)
(***************************************************************************)
Cur ==
  [r |-> rd, g |-> gif, t |-> table, d |-> dec, f |-> frame, h |-> hist,
   pc |-> pc, res |-> res]

Commit(m) ==
  /\ rd' = m.r /\ gif' = m.g /\ table' = m.t /\ dec' = m.d
  /\ frame' = m.f /\ hist' = m.h /\ pc' = m.pc /\ res' = m.res
  /\ player' = player /\ sketch' = sketch

\* behaviour the language leaves undefined, or a loop that does not end:
\* the call does not return a result the model can follow
Fault(m, why) == [m EXCEPT !.pc = "ub", !.h.fault = why]

\* gd_get_frame returns v
Return(m, v) ==
  [m EXCEPT !.res = v, !.pc = "ready",
            !.h.frames = IF v = 1 THEN @ + 1 ELSE @,
            !.h.sincerw = IF @ < 0 THEN @ ELSE @ + 1,
            !.h.first = IF m.h.calls = 1 THEN m.f ELSE @]

(***************************************************************************)
(* Image block: read_image and the set-up of read_image_data               *)
(***************************************************************************)
\* p.vals = <<fx, fy, fw, fh, fisrz>>
ImageRect(g, p) ==
  [r |-> p.r, fisrz |-> p.vals[5],
   g |-> [g EXCEPT !.fx = p.vals[1], !.fy = p.vals[2], !.fw = p.vals[3], !.fh = p.vals[4]]]

ImageLocal(y, lct) ==
  [r |-> lct.r, g |-> [y.g EXCEPT !.lct = lct.pal, !.palette = "lct"],
   interlace |-> BitAnd(y.fisrz, 64)]

\* variant of ImageTable that leaves gif->palette alone without a local table
ImageTableKept(y) ==
  IF BitAnd(y.fisrz, 128) # 0
  THEN ImageLocal(y, read_palette(y.r, Shl(1, BitAnd(y.fisrz, 7) + 1)))
  ELSE [r |-> y.r, g |-> y.g, interlace |-> BitAnd(y.fisrz, 64)]

ImageTable(y) ==
  IF BitAnd(y.fisrz, 128) # 0
  THEN ImageLocal(y, read_palette(y.r, Shl(1, BitAnd(y.fisrz, 7) + 1)))
  ELSE [r |-> y.r, g |-> [y.g EXCEPT !.palette = "gct"],
        interlace |-> BitAnd(y.fisrz, 64)]

\* read_image up to the call of read_image_data; x is [r, g]
read_image(x) ==
  Then(PRun(PInit(x.r), <<2, 2, 2, 2, 1>>),
       LAMBDA p : ImageTable(ImageRect(x.g, p)))

NoDec == [active |-> FALSE]

DataInit(im, t, ks, k) ==
  [r |-> k.r, g |-> im.g, t |-> t,
   d |-> [active |-> TRUE, interlace |-> im.interlace,
          key_size |-> ks + 1, init_key_size |-> ks + 1,
          clear |-> U16(Shl(1, ks)), stop |-> U16(Shl(1, ks) + 1),
          sub_len |-> k.sub_len, shift |-> k.shift, byte |-> k.byte,
          key |-> k.key, frm_off |-> 0, str_len |-> 0, ret |-> 0,
          table_is_full |-> 0,
          entry |-> [len |-> 0, prefix |-> 0, suffix |-> 0]]]

DataKey(im, t, b) ==
  Then(get_key(b.r, b.b + 1, 0, 0, b.b),
       LAMBDA k : DataInit(im, reset_table(t, b.b), b.b, k))

\* read_image_data from its first line to the get_key before the loop
read_image_data_begin(im, t) == Then(gif_buf_read(im.r), LAMBDA b : DataKey(im, t, b))

(***************************************************************************)
(* Pixel output                                                            *)
(***************************************************************************)
\* variant of WritesPixel without the exemption of the first frame
WritesPixelNoFirst(g, tindex, suffix) == tindex # suffix

\* the test that guards the store into frame[]
WritesPixel(g, tindex, suffix) ==
  (~g.processed_first_frame) \/ (tindex # suffix)

\* the row a linear position falls on
PixelRow(g, interlace, p) ==
  IF interlace # 0 THEN interlaced_line_index(I16(g.fh), CDiv(p, g.fw))
  ELSE CDiv(p, g.fw)

\* variant of FrameIndex that takes the image width for the row stride
FrameIndexPacked(g, interlace, p) ==
  (g.fy + PixelRow(g, interlace, p)) * g.fw + g.fx + (p % g.fw)

\* the index of frame[] a linear position of the image is stored at
FrameIndex(g, interlace, p) ==
  (g.fy + PixelRow(g, interlace, p)) * g.width + g.fx + (p % g.fw)

IsUninit(e) == e.len = Uninit \/ e.prefix = Uninit \/ e.suffix = Uninit

Log(m, idx, w) ==
  [m EXCEPT !.h.emit = @ \cup {[p |-> m.d.frm_off + m.d.entry.len - 1, idx |-> idx,
                                v |-> m.d.entry.suffix, w |-> w]}]

Store(m, idx) == [m EXCEPT !.f[idx] = m.d.entry.suffix]

\* the linear position of the pixel of d.entry and its index in frame[]
PixelAt(m) == FrameIndex(m.g, m.d.interlace, m.d.frm_off + m.d.entry.len - 1)

\* what stops the inner loop short of its break, "none" when nothing does
StringFault(m, fuel) ==
  IF fuel = 0 THEN "hang"
  ELSE IF IsUninit(m.d.entry) THEN "uninit"
  ELSE IF m.g.fw = 0 THEN "divzero"
  ELSE IF WritesPixel(m.g, m.g.gce.tindex, m.d.entry.suffix) /\ PixelAt(m) \notin DOMAIN m.f
  THEN "frame_oob"
  ELSE "none"

\* if (!processed_first_frame || tindex != entry.suffix) frame[..] = entry.suffix
WritePixel(m, idx) ==
  IF WritesPixel(m.g, m.g.gce.tindex, m.d.entry.suffix)
  THEN IF idx \in DOMAIN m.f THEN Store(Log(m, idx, TRUE), idx) ELSE Log(m, idx, TRUE)
  ELSE Log(m, idx, FALSE)

\* entry = table->entries[entry.prefix]
WalkPrefix(m) == [m EXCEPT !.d.entry = EntryAt(m.t, m.d.entry.prefix)]

\* the last pass of the inner loop: the pixel of the root entry, or a fault
WriteLast(m, fuel) ==
  IF StringFault(m, fuel) \in {"hang", "uninit", "divzero"} THEN Fault(m, StringFault(m, fuel))
  ELSE IF StringFault(m, fuel) = "frame_oob" THEN Fault(WritePixel(m, PixelAt(m)), "frame_oob")
  ELSE WritePixel(m, PixelAt(m))

\* the inner while (1) of read_image_data: stores the string of d.entry, last
\* pixel first, and ends on the root entry of the string
RECURSIVE WriteString(_, _)
WriteString(m, fuel) ==
  IF StringFault(m, fuel) # "none" \/ m.d.entry.prefix = ROOT_PREFIX THEN WriteLast(m, fuel)
  ELSE WriteString(WalkPrefix(WritePixel(m, PixelAt(m))), fuel - 1)

(***************************************************************************)
(* The code loop of read_image_data                                        *)
(***************************************************************************)
\* if (key == clear) { ... }
HeadClear(m) ==
  [m EXCEPT !.d.key_size = m.d.init_key_size,
            !.t.nentries = Shl(1, m.d.init_key_size - 1) + 2,
            !.d.table_is_full = 0]

\* else if (!table_is_full) { ret = add_entry(...); if (nentries == 0x1000) ... }
HeadAdd(m, a) ==
  [m EXCEPT !.t = a.t,
            !.d.ret = IF a.t.nentries = TABLE_SIZE THEN 0 ELSE a.ret,
            !.d.table_is_full = IF a.t.nentries = TABLE_SIZE THEN 1 ELSE 0]

LoopHead(m) ==
  IF m.d.key = m.d.clear THEN HeadClear(m)
  ELSE IF m.d.table_is_full = 0
  THEN IF m.t.nentries >= TABLE_SIZE THEN Fault(m, "table_oob")
       ELSE HeadAdd(m, add_entry(m.t, m.d.str_len + 1, m.d.key, m.d.entry.suffix))
  ELSE m

TakeKey(m, k) ==
  [m EXCEPT !.r = k.r, !.d.sub_len = k.sub_len, !.d.shift = k.shift,
            !.d.byte = k.byte, !.d.key = k.key,
            !.h.reads = Append(@, Read(m.d.key_size, m.t.nentries, k.key))]

\* key = get_key(gif, key_size, &sub_len, &shift, &byte)
ReadKey(m) ==
  IF m.pc = "ub" THEN m
  ELSE Then(get_key(m.r, m.d.key_size, m.d.sub_len, m.d.shift, m.d.byte),
            LAMBDA k : TakeKey(m, k))

\* if (ret == 1) key_size++
GrowKeySize(d) == IF d.ret = 1 THEN d.key_size + 1 ELSE d.key_size

Grow(m) == [m EXCEPT !.d.key_size = GrowKeySize(m.d)]

\* variant of FixSuffix that leaves the newest entry as add_entry wrote it
FixSuffixNever(m) == m

\* if (key < nentries - 1 && !table_is_full) entries[nentries - 1].suffix = ...
FixSuffix(m) ==
  IF m.d.key < m.t.nentries - 1 /\ m.d.table_is_full = 0
  THEN IF m.t.nentries - 1 >= TABLE_SIZE THEN Fault(m, "table_oob")
       ELSE [m EXCEPT !.t = PutEntry(m.t, m.t.nentries - 1,
                       [EntryAt(m.t, m.t.nentries - 1) EXCEPT !.suffix = m.d.entry.suffix])]
  ELSE m

\* frm_off += str_len
EndString(m) ==
  IF m.pc = "ub" THEN m
  ELSE FixSuffix([m EXCEPT !.d.frm_off = @ + m.d.str_len,
                           !.h.strs = Append(@, String(m.d.key, m.d.frm_off, m.d.str_len))])

\* entry = gif->table->entries[key]; str_len = entry.len; the inner loop
Emit(m) ==
  Then(WriteString([m EXCEPT !.d.entry = EntryAt(m.t, m.d.key),
                             !.d.str_len = EntryAt(m.t, m.d.key).len], LoopFuel),
       EndString)

FinishRead(m, z) ==
  Return([m EXCEPT !.r = z.r, !.d.sub_len = z.b, !.g.processed_first_frame = TRUE], 1)

\* after the loop: gif_buf_read(gif->fd, &sub_len, 1); processed_first_frame = true
Finish(m) == FinishRead(m, gif_buf_read(m.r))

AfterKey(m) ==
  IF m.pc = "ub" THEN m
  ELSE IF m.r.oob THEN Fault(m, "oob")
  ELSE IF m.d.key = m.d.clear THEN m
  ELSE IF m.d.key = m.d.stop THEN Finish(m)
  ELSE Then(Grow(m), Emit)

\* one iteration of the while (1) loop, from its head to the next head
DecodeStep(m) == Then(Then(LoopHead(m), ReadKey), AfterKey)

(***************************************************************************)
(* gd_get_frame up to the code loop                                        *)
(***************************************************************************)
Begin(m) ==
  [m EXCEPT !.h.calls = @ + 1, !.h.passes = 0, !.h.nth = 0, !.h.pre = m.f,
            !.h.emit = {}, !.h.reads = <<>>, !.h.strs = <<>>]

StartImage(m, b) ==
  IF b.r.oob \/ b.r.hang
  THEN Fault([m EXCEPT !.r = b.r, !.g = b.g], IF b.r.hang THEN "hang" ELSE "oob")
  ELSE [m EXCEPT !.r = b.r, !.g = b.g, !.t = b.t, !.d = b.d, !.pc = "decode",
                 !.h.blk = @ + 1, !.h.nth = m.h.frames + 1,
                 !.h.reads = <<Read(b.d.key_size, b.t.nentries, b.d.key)>>]

\* read_ext returned: the loop of gd_get_frame goes on
NextPass(m, bl) ==
  IF m.h.passes + 1 >= LoopFuel THEN Fault([m EXCEPT !.r = bl.r, !.g = bl.g], "hang")
  ELSE [m EXCEPT !.r = bl.r, !.g = bl.g, !.pc = "blocks", !.h.passes = @ + 1]

FrameKind(m, bl) ==
  CASE bl.kind = "image" ->
         Then(Then(read_image(bl), LAMBDA im : read_image_data_begin(im, m.t)),
              LAMBDA b : StartImage(m, b))
    [] bl.kind = "ub" ->
         Fault([m EXCEPT !.r = bl.r, !.g = bl.g], IF bl.r.hang THEN "hang" ELSE "oob")
    [] bl.kind = "eos" -> Return([m EXCEPT !.r = bl.r, !.g = bl.g], 0)
    [] bl.kind = "ext" -> NextPass(m, bl)
    [] OTHER -> Return([m EXCEPT !.r = bl.r, !.g = bl.g], -1)

\* one pass of the loop of gd_get_frame and what follows its break or return
Marked(m, bl) ==
  [m EXCEPT !.h.sep = bl.sep, !.h.seppos = bl.pos, !.h.label = bl.label]

BlockStep(m) ==
  Then(BlockPass([r |-> m.r, g |-> m.g]), LAMBDA bl : FrameKind(Marked(m, bl), bl))

\* gd_get_frame from its call to the end of the first pass of its loop
GetFrame(m) == Then(Begin(m), BlockStep)

\* void gd_rewind(gd_GIF *gif)
gd_rewind(r, g) ==
  [r EXCEPT !.fd_pos = g.anim_start, !.file_pos = I16(g.anim_start),
            !.gif_buf_idx = r.gif_buf_last_idx]

(***************************************************************************)
(* Sources.  A source is described by a record (input) and serialised to   *)
(* the bytes of the file: header, logical screen descriptor, global colour *)
(* table, blocks, trailer.  Image data is packed as a GIF encoder packs    *)
(* it: codes least significant bit first, the width growing when the next  *)
(* free code no longer fits.                                               *)
(***************************************************************************)
U16LE(v) == <<v % 256, v \div 256>>

RECURSIVE BitsOf(_, _)
BitsOf(v, w) == IF w = 0 THEN <<>> ELSE <<v % 2>> \o BitsOf(v \div 2, w - 1)

RECURSIVE ByteOf(_)
ByteOf(bits) == IF bits = <<>> THEN 0 ELSE Head(bits) + 2 * ByteOf(Tail(bits))

\* eight bits to a byte, the last byte padded with zeros
PackBytes(bits) ==
  [i \in 1..((Len(bits) + 7) \div 8) |->
     ByteOf(SubSeq(bits, 8 * i - 7, MIN(8 * i, Len(bits))))]

\* the encoder's next free code after code c: fresh holds right after a clear
\* code (the first code after it defines no entry)
EncNext(c, m, next, fresh) ==
  IF c = Pow2(m) THEN Pow2(m) + 2
  ELSE IF fresh \/ next >= TABLE_SIZE THEN next ELSE next + 1

\* the encoder's width for the code after code c
EncWidth(c, m, n1, w, fresh) ==
  IF c = Pow2(m) THEN m + 1
  ELSE IF n1 = Pow2(w) /\ w < 12 /\ ~fresh THEN w + 1 ELSE w

\* the bits of a code sequence under the encoder's width rule
\* e is the encoder after some codes: bits written, codes done, next free
\* code, width, fresh
EncPut(e, c, m, n1) ==
  [bits |-> e.bits \o BitsOf(c, e.w), done |-> e.done + 1, next |-> n1,
   w |-> EncWidth(c, m, n1, e.w, e.fresh), fresh |-> (c = Pow2(m))]
EncCode(e, c, m) == EncPut(e, c, m, EncNext(c, m, e.next, e.fresh))

RECURSIVE EncLoop(_, _, _)
EncLoop(e, codes, m) ==
  IF e.done >= Len(codes) THEN e.bits
  ELSE EncLoop(EncCode(e, codes[e.done + 1], m), codes, m)

EncBits(codes, m, next, w, fresh) ==
  EncLoop([bits |-> <<>>, done |-> 0, next |-> next, w |-> w, fresh |-> fresh], codes, m)

\* sub-block framing: payload cut into runs of at most cut bytes, then 0
RECURSIVE SubBlocks(_, _)
SubBlocks(bytes, cut) ==
  IF bytes = <<>> THEN <<0>>
  ELSE <<MIN(cut, Len(bytes))>> \o SubSeq(bytes, 1, MIN(cut, Len(bytes)))
         \o SubBlocks(SubSeq(bytes, MIN(cut, Len(bytes)) + 1, Len(bytes)), cut)

\* sub-block framing: payload cut into runs of the lengths given, then 0
RECURSIVE SplitBlocks(_, _)
SplitBlocks(bytes, lens) ==
  IF lens = <<>> THEN <<0>>
  ELSE <<Head(lens)>> \o SubSeq(bytes, 1, Head(lens))
         \o SplitBlocks(SubSeq(bytes, Head(lens) + 1, Len(bytes)), Tail(lens))

LiteralCodes(px, m) == <<Pow2(m)>> \o px \o <<Pow2(m) + 1>>

(***************************************************************************)
(* Reference LZW encoder of GIF: a clear code first, then the code of the  *)
(* longest string of the dictionary that begins the pixels left, and a new *)
(* dictionary string (that string and the pixel after it) per code sent.   *)
(* dict holds the strings of the codes from 2^m + 2 on.                    *)
(***************************************************************************)
\* the code of string s: a single pixel is its own code
LzwCode(dict, s, m) ==
  IF Len(s) = 1 THEN s[1]
  ELSE Pow2(m) + 1 + (CHOOSE i \in 1..Len(dict) : dict[i] = s)

LzwKnown(dict, s) == Len(s) = 1 \/ \E i \in 1..Len(dict) : dict[i] = s

\* w is the string matched so far, i the next pixel, out the codes sent
RECURSIVE LzwLoop(_, _, _, _, _, _)
LzwLoop(px, i, w, dict, out, m) ==
  IF i > Len(px) THEN Append(out, LzwCode(dict, w, m))
  ELSE IF LzwKnown(dict, Append(w, px[i]))
  THEN LzwLoop(px, i + 1, Append(w, px[i]), dict, out, m)
  ELSE LzwLoop(px, i + 1, <<px[i]>>, Append(dict, Append(w, px[i])),
               Append(out, LzwCode(dict, w, m)), m)

\* the codes of a nonempty pixel sequence, minimum code size m
LzwCodes(px, m) ==
  LzwLoop(px, 2, <<px[1]>>, <<>>, <<Pow2(m)>>, m) \o <<Pow2(m) + 1>>

GceBytes(b) ==
  <<33, 249, 4, b.disposal * 4 + b.transparency>> \o U16LE(b.delay) \o <<b.tindex, 0>>

\* the encoder's width for the i-th code after a clear code, no clear code
\* between: the next free code is then MIN(4096, 2^m + 1 + i)
RunWidth(m, i) ==
  IF Pow2(m) + i >= 2048 THEN 12
  ELSE CHOOSE w \in (m + 1)..11 : Pow2(m) + i < Pow2(w) /\ (w = m + 1 \/ Pow2(m) + i >= Pow2(w - 1))

\* how many of the first n codes after a clear code are w bits wide
RunCount(m, n, w) ==
  Cardinality({i \in 1..n : RunWidth(m, i) = w})

\* the bits of n codes after a clear code
RECURSIVE RunLen(_, _, _)
RunLen(m, n, w) == IF w > 12 THEN 0 ELSE w * RunCount(m, n, w) + RunLen(m, n, w + 1)

\* a clear code, b.run codes 0 (all their bits are 0), then b.codes
RunBits(b) ==
  BitsOf(Pow2(b.m), b.m + 1) \o [q \in 1..RunLen(b.m, b.run, b.m + 1) |-> 0]
    \o EncBits(b.codes, b.m, MIN(TABLE_SIZE, Pow2(b.m) + 1 + b.run),
               RunWidth(b.m, b.run + 1), FALSE)

ImageBits(b) ==
  IF b.run = 0 THEN EncBits(b.codes, b.m, Pow2(b.m) + 2, b.m + 1, TRUE) ELSE RunBits(b)

\* the bytes of a colour table of n entries: black, white, two greys, then
\* colours that differ in every bit; k is added to tell tables apart
PaletteByte(j, c, k) ==
  IF j = 1 THEN 0 ELSE IF j = 2 THEN 255
  ELSE IF j <= 4 THEN (IF c = 1 THEN 4 * j ELSE 8 * j)
  ELSE (37 * j + 101 * c + 3 + k) % 256

PaletteBytes(n, k) == [i \in 1..(3 * n) |-> PaletteByte((i + 2) \div 3, (i - 1) % 3, k)]

\* the packed byte of the image descriptor and the local table after it
ImagePacked(b) ==
  <<(IF b.interlace THEN 64 ELSE 0) + (IF b.local >= 0 THEN 128 + b.local ELSE 0)>>
    \o (IF b.local >= 0 THEN PaletteBytes(Pow2(b.local + 1), 91) ELSE <<>>)

\* the payload of the image data: the packed codes, then b.extra
ImagePayload(b) == PackBytes(ImageBits(b)) \o b.extra

ImageBytes(b) ==
  <<44>> \o U16LE(b.fx) \o U16LE(b.fy) \o U16LE(b.fw) \o U16LE(b.fh)
    \o ImagePacked(b) \o <<b.m>>
    \o (IF b.split = <<>> THEN SubBlocks(ImagePayload(b), b.cut)
        ELSE SplitBlocks(ImagePayload(b), b.split))

\* application extension "NETSCAPE2.0" with the loop count
AppBytes(b) ==
  <<33, 255, 11>> \o NETSCAPE \o <<50, 46, 48>> \o <<3, 1>> \o U16LE(b.loops) \o <<0>>

CommentBytes(b) == <<33, 254>> \o SubBlocks(b.text, 255)

\* plain text extension: 12 bytes of grid description, then the text
PlainTextBytes(b) == <<33, 1, 12>> \o [i \in 1..12 |-> 0] \o SubBlocks(b.text, 255)

BlockBytes(b) ==
  CASE b.kind = "gce"     -> GceBytes(b)
    [] b.kind = "image"   -> ImageBytes(b)
    [] b.kind = "app"     -> AppBytes(b)
    [] b.kind = "comment" -> CommentBytes(b)
    [] b.kind = "text"    -> PlainTextBytes(b)
    [] b.kind = "raw"     -> b.bytes
    [] b.kind = "unknown" -> <<33, b.label>> \o SubBlocks(b.text, 255)

\* a is the bytes of the blocks done so far
RECURSIVE BlocksLoop(_, _)
BlocksLoop(a, bs) ==
  IF a.done >= Len(bs) THEN a.bytes
  ELSE BlocksLoop([bytes |-> a.bytes \o BlockBytes(bs[a.done + 1]), done |-> a.done + 1], bs)

BlocksBytes(bs) == BlocksLoop([bytes |-> <<>>, done |-> 0], bs)

Serialize(in) ==
  in.sig \o U16LE(in.w) \o U16LE(in.h) \o <<in.packed, 0, 0>>
    \o PaletteBytes(Pow2((in.packed % 8) + 1), 0)
    \o BlocksBytes(in.blocks) \o in.tail

(***************************************************************************)
(* Bounds of the exploration                                               *)
(***************************************************************************)
MaxCalls   == 4     \* gd_get_frame calls per session
MaxRewinds == 1     \* gd_rewind calls per session
MaxFrames  == 2     \* image blocks of a multi-frame source

(***************************************************************************)
(* Actions                                                                 *)
(***************************************************************************)
\* the frame buffer is malloc'ed: before the first frame it holds whatever
\* the source description draws (input.fill) in every byte
Opened(m, o) ==
  IF o.r.oob \/ o.r.hang THEN Fault([m EXCEPT !.r = o.r], "oob")
  ELSE IF o.ok
  THEN [m EXCEPT !.r = o.r, !.g = o.gif, !.t = new_table, !.pc = "ready",
                 !.f = [i \in 0..(o.gif.width * o.gif.height - 1) |-> input.fill]]
  ELSE [m EXCEPT !.r = o.r, !.pc = "failed"]

\* LittleFS.open, gd_open_gif and the malloc of the frame buffer
open ==
  /\ pc = "unopened"
  /\ Commit(Opened(Cur, gd_open_gif([rd EXCEPT !.fd_pos = 0])))
  /\ UNCHANGED <<file, input>>

\* the call of gd_get_frame and the first pass of its block loop: to the
\* code loop of read_image_data on an image block, to the return on the
\* trailer or an unknown block, to the next pass on an extension block
get_frame_begin ==
  /\ pc = "ready"
  /\ hist.calls < MaxCalls
  /\ Commit(GetFrame(Cur))
  /\ UNCHANGED <<file, input>>

\* a further pass of the block loop of gd_get_frame
read_block ==
  /\ pc = "blocks"
  /\ Commit(BlockStep(Cur))
  /\ UNCHANGED <<file, input>>

\* one iteration of the while (1) loop of read_image_data; on the stop code
\* the rest of read_image_data, read_image and gd_get_frame
decode_step ==
  /\ pc = "decode"
  /\ Commit(DecodeStep(Cur))
  /\ UNCHANGED <<file, input>>

Rewound(m) ==
  [m EXCEPT !.r = gd_rewind(m.r, m.g),
            !.h.rewinds = @ + 1, !.h.sincerw = 0, !.h.blk = 0]

rewind ==
  /\ pc = "ready"
  /\ hist.rewinds < MaxRewinds
  /\ Commit(Rewound(Cur))
  /\ UNCHANGED <<file, input>>

Closed(m) == [m EXCEPT !.pc = "closed", !.f = <<>>, !.t = new_table]

\* void gd_close_gif(gd_GIF *gif) and the free of the frame buffer
close ==
  /\ pc = "ready"
  /\ Commit(Closed(Cur))
  /\ UNCHANGED <<file, input>>

Next == open \/ get_frame_begin \/ read_block \/ decode_step \/ rewind \/ close

(***************************************************************************)
(* The sources explored                                                    *)
(***************************************************************************)
GIF89a == <<71, 73, 70, 56, 57, 97>>
GIF87a == <<71, 73, 70, 56, 55, 97>>
TRAILER == <<59>>

Gce(transparency, tindex, delay) ==
  [kind |-> "gce", disposal |-> 0, transparency |-> transparency,
   tindex |-> tindex, delay |-> delay]

App(loops) == [kind |-> "app", loops |-> loops]
Comment(text) == [kind |-> "comment", text |-> text]
PlainText(text) == [kind |-> "text", text |-> text]

\* an extension block of a label read_ext has no case for
Unknown(label, text) == [kind |-> "unknown", label |-> label, text |-> text]

\* bytes between blocks
Raw(bytes) == [kind |-> "raw", bytes |-> bytes]

\* an image block of arbitrary codes, minimum code size m
Image(fx, fy, fw, fh, interlace, m, codes) ==
  [kind |-> "image", fx |-> fx, fy |-> fy, fw |-> fw, fh |-> fh,
   interlace |-> interlace, m |-> m, codes |-> codes, cut |-> 255,
   lit |-> FALSE, px |-> <<>>, run |-> 0, local |-> -1,
   split |-> <<>>, extra |-> <<>>]

\* an image block of a clear code, run codes 0, then the codes given
Filled(fx, fy, fw, fh, m, run, codes) ==
  [Image(fx, fy, fw, fh, FALSE, m, codes) EXCEPT !.run = run]

\* an image of literal codes, minimum code size 2: a clear code, one code per
\* pixel of px, the stop code
Literal(fx, fy, fw, fh, interlace, px) ==
  [Image(fx, fy, fw, fh, interlace, 2, LiteralCodes(px, 2))
     EXCEPT !.lit = TRUE, !.px = px]

Source(sig, packed, w, h, blocks, fill) ==
  [sig |-> sig, packed |-> packed, w |-> w, h |-> h, blocks |-> blocks,
   tail |-> TRAILER, fill |-> fill]

\* pixel sequences of length n over the two colours
Pixels(n) == [1..n -> {0, 1}]

\* what the malloc'ed frame buffer may hold before the first frame
Fills == {1, 7}

\* placement rectangles <<fx, fy, fw, fh>> on the 2x2 canvas
Rects == {<<0, 0, 2, 2>>, <<1, 0, 1, 2>>, <<0, 1, 2, 1>>, <<1, 1, 1, 1>>}

\* one frame: the blocks before an image and a literal image
FrameMenu ==
  { <<App(3), Comment(<<104, 105>>), PlainText(<<111, 107>>), Gce(0, 0, 1),
      Literal(0, 0, 2, 2, FALSE, <<1, 0, 1, 1>>)>>, <<Literal(0, 0, 2, 2, FALSE, <<0, 1, 1, 0>>)>>,
    <<Literal(0, 0, 2, 2, FALSE, <<1, 1, 1, 1>>)>>,
    <<Gce(1, 1, 5), Literal(0, 0, 2, 2, FALSE, <<1, 0, 0, 1>>)>>,
    <<Gce(0, 1, 0), Literal(1, 0, 1, 2, FALSE, <<1, 0>>)>>,
    <<Gce(1, 0, 2), Literal(0, 1, 2, 1, FALSE, <<0, 1>>)>> }

RECURSIVE FrameSeqs(_)
FrameSeqs(n) ==
  IF n = 0 THEN {<<>>}
  ELSE {f \o s : f \in FrameMenu, s \in FrameSeqs(n - 1)}

\* headers: signature and packed byte varied, one literal frame
SourcesHeader ==
  { Source(sig, packed, 2, 2, <<Literal(0, 0, 2, 2, FALSE, <<0, 1, 1, 0>>)>>, 7) :
      sig \in {GIF89a, GIF87a, <<71, 73, 70, 56, 57, 98>>, <<71, 73, 71, 56, 57, 97>>,
               <<103, 105, 102, 56, 57, 97>>},
      packed \in {128, 0, 129, 1, 240, 112} }

\* one literal image, any rectangle and any pixels that fill it
SourcesOne ==
  UNION { { Source(GIF89a, 128, 2, 2,
                   <<Literal(rc[1], rc[2], rc[3], rc[4], FALSE, px)>>, 7) :
              px \in Pixels(rc[3] * rc[4]) } : rc \in Rects }

\* one literal image that holds more codes than its rectangle has pixels
SourcesOver ==
  { Source(GIF89a, 128, 2, 2, <<Literal(rc[1], rc[2], 1, 1, FALSE, px)>>, 7) :
      rc \in {<<0, 0>>, <<1, 0>>, <<1, 1>>}, px \in Pixels(2) }

\* 1..MaxFrames frames of the menu
SourcesMulti ==
  UNION { { Source(GIF89a, 128, 2, 2, bs, fill) : bs \in FrameSeqs(n) } :
            n \in 1..MaxFrames, fill \in Fills }

Sources == SourcesHeader \cup SourcesOne \cup SourcesOver \cup SourcesMulti

\* the image blocks of a source, in stream order
ImagesOf(in) == SelectSeq(in.blocks, LAMBDA b : b.kind = "image")

\* every image is literal, holds one code per pixel of its rectangle, and the
\* rectangle lies on the canvas
WellFormed(in) ==
  /\ in.sig = GIF89a /\ in.packed >= 128 /\ in.tail = TRAILER
  /\ \A i \in 1..Len(in.blocks) :
       in.blocks[i].kind = "image" =>
         /\ in.blocks[i].lit
         /\ ~in.blocks[i].interlace
         /\ Len(in.blocks[i].px) = in.blocks[i].fw * in.blocks[i].fh
         /\ in.blocks[i].fx + in.blocks[i].fw <= in.w
         /\ in.blocks[i].fy + in.blocks[i].fh <= in.h

\* the statics of playLoopingGif (lines 1427-1432); gifFile, gif and buf
\* hold the number of the file in files, 0 for none; files lists every
\* file LittleFS.open delivered with the calls made on it and on its
\* session and frame buffer; last is the result that ended the frame loop
PlayerInit ==
  [files |-> <<>>, gifFile |-> 0, gif |-> 0, buf |-> 0, isInitialized |-> FALSE,
   currentFilename |-> "", last |-> -2, fault |-> "none"]

\* time in the model passes in steps of Unit milliseconds
Unit == 500

DOUBLE_CLICK_WINDOW == 500
LONG_PRESS_DURATION == 3000
VOLUME_MENU_LONG_PRESS_DURATION == 1500
RESET_MESSAGE_DURATION == 3000
IDLE_ATTRACT_DELAY == 10000
CONTINUE_TIMEOUT == 15000
NEW_HIGHSCORE_DURATION == 5000
ATTRACT_DISPLAY_DURATION == 15000
BATTERY_CHECK_INTERVAL == 5000
LOW_BATTERY_WARNING_DURATION == 5000
MUSIC_CHECK_INTERVAL == 1000

\* the volumes of the volume menu; index 0 is the muted one
VOLUME_LEVELS == <<0, 1, 5, 10, 15, 20, 25, 30>>
NUM_VOLUME_LEVELS == 8

\* the static continuousMinFSR of STATE_BOXING before a reading
NoReading == 4096
\* a reading below which a punch begins, and the time a punch takes
PunchReading == 3800
PunchTime == 500
\* the time after which a minimum without punch is forgotten
MinResetTime == 2000

\* a release time that lies further back than the double-click window
Far == DOUBLE_CLICK_WINDOW + Unit

(***************************************************************************)
(* The globals of the sketch that loop() reads and writes in STATE_BOOT,   *)
(* STATE_IDLE and STATE_VOLUME_MENU.  A time stamp t of the code is held   *)
(* as currentTime - t, up to the largest value the code compares it with:  *)
(*   sincePress, sinceExternalPress      buttonPressStartTime, external... *)
(*   sinceRelease, sinceExternalRelease  lastButtonReleaseTime, external...*)
(*   sinceIdle, sinceReset               idleTimer, resetMessageTimer      *)
(* dc, wasPressed and holdDuration are the values checkDoubleClick and     *)
(* checkButtonRelease return.  low says which pins read LOW (pressed),     *)
(* gone that the player has left, polled that a pass of loop() began since *)
(* the last step of time.  Observations: seen, the buttons whose release   *)
(* the last step saw; last, the time since the release before that was     *)
(* seen in STATE_IDLE; raced, a pin changed between the reads of the pass; *)
(* started, what entered STATE_BOXING.                                      *)
(* The other states of loop() add: sinceBattery, sinceWarning,             *)
(* sinceAttract, sinceNewHighscore, sinceContinue, sinceMusic, sincePunch, *)
(* sinceMinReset for batteryCheckTimer, lowBatteryWarningTimer,            *)
(* attractTimer, newHighscoreTimer, continueTimer, lastMusicCheck,         *)
(* punchDetectedTime, lastResetTime; booted, setup() has run; asleep,      *)
(* esp_deep_sleep_start() was called.  Observations: down, the time each   *)
(* pin has been LOW; sent, the tracks of the play commands of the last     *)
(* step, sentMuted those sent with the volume muted; wiped, the step       *)
(* called resetHighScore; sampled, the ADC reading of the battery the step *)
(* took or -1; ran, the case of the switch that ran; rounds, the punches   *)
(* scored; cycles, the changes of the volume; presses, the changes of the  *)
(* pins between passes; changed, a pin changed since the last pass.        *)
(***************************************************************************)
SketchInit ==
  [currentState |-> "STATE_BOOT",
   buttonHeld |-> FALSE, externalButtonHeld |-> FALSE,
   waitingForSecondClick |-> FALSE, waitingForSecondExternalClick |-> FALSE,
   justExitedVolumeMenu |-> FALSE, showResetMessage |-> FALSE,
   bootButtonJustReleased |-> FALSE, externalButtonJustReleased |-> FALSE,
   attractShowingHighscore |-> TRUE,
   sincePress |-> LONG_PRESS_DURATION, sinceExternalPress |-> LONG_PRESS_DURATION,
   sinceRelease |-> Far, sinceExternalRelease |-> Far,
   sinceIdle |-> 0, sinceReset |-> RESET_MESSAGE_DURATION,
   dc |-> FALSE, wasPressed |-> FALSE, holdDuration |-> 0,
   low |-> [boot |-> FALSE, ext |-> FALSE], gone |-> FALSE, polled |-> TRUE,
   seen |-> {}, last |-> [boot |-> Far, ext |-> Far], raced |-> FALSE,
   started |-> "none",
   booted |-> TRUE, asleep |-> FALSE,
   highScore |-> 0, currentScore |-> 0, currentVolumeIndex |-> 3,
   lowBatteryWarning |-> FALSE, criticalBattery |-> FALSE,
   idleMusicLooping |-> FALSE, countdownMusicLooping |-> FALSE,
   waitingForPunch |-> TRUE, resultPhase |-> 0,
   buttonPressed |-> FALSE, externalButtonPressed |-> FALSE,
   timerInitialized |-> FALSE, countdownMusicStarted |-> FALSE,
   continuousMinFSR |-> NoReading, punchInProgress |-> FALSE,
   sinceBattery |-> 0, sinceWarning |-> LOW_BATTERY_WARNING_DURATION,
   sinceAttract |-> ATTRACT_DISPLAY_DURATION,
   sinceNewHighscore |-> NEW_HIGHSCORE_DURATION,
   sinceContinue |-> CONTINUE_TIMEOUT, sinceMusic |-> MUSIC_CHECK_INTERVAL,
   sincePunch |-> PunchTime, sinceMinReset |-> MinResetTime + Unit,
   down |-> [boot |-> LONG_PRESS_DURATION, ext |-> LONG_PRESS_DURATION],
   sent |-> {}, sentMuted |-> {}, wiped |-> FALSE, sampled |-> -1,
   ran |-> "none", rounds |-> 0, cycles |-> 0, presses |-> 0,
   changed |-> FALSE]

InitOf(S) ==
  /\ \E in \in S : input = in /\ file = Serialize(in)
  /\ player = PlayerInit
  /\ sketch = SketchInit
  /\ rd = ReaderInit
  /\ gif = ZeroGif
  /\ table = new_table
  /\ frame = <<>>
  /\ dec = NoDec
  /\ pc = "unopened"
  /\ res = -2
  /\ hist = HistInit

Init == InitOf(Sources)

Spec == Init /\ [][Next]_vars

(***************************************************************************)
(* Sources of arbitrary code sequences, minimum code size 2, on a canvas   *)
(* wide enough for the strings they decode to                              *)
(***************************************************************************)
CodeSeqs(n, S) == UNION { [1..k -> S] : k \in 1..n }

\* a leading clear code or none, then up to three codes
CodesShort ==
  { pre \o body \o <<5>> : pre \in {<<>>, <<4>>}, body \in CodeSeqs(3, {0, 1, 4, 6}) }

\* two codes, a clear code, then three codes: the clear code follows the
\* code that made the entry count 8
CodesReclear ==
  { <<4>> \o a \o <<4>> \o b \o <<5>> : a \in [1..2 -> {0, 1}], b \in [1..3 -> {0, 1, 6}] }

\* twelve literal codes: the entry count passes 8 and 16
CodesLong ==
  { LiteralCodes([i \in 1..12 |-> (i + k) % 2], 2) : k \in {0, 1} }

\* the image alone, or after a graphic control block for the long sequences
SourcesCodes ==
  { Source(GIF89a, 128, 4, 4, <<Image(0, 0, 4, 4, FALSE, 2, codes)>>, 7) :
      codes \in CodesShort \cup CodesReclear \cup CodesLong }
  \cup { Source(GIF89a, 128, 4, 4, <<Gce(0, 0, 0), Image(0, 0, 4, 4, FALSE, 2, codes)>>, 7) :
           codes \in CodesLong }

InitCodes == InitOf(SourcesCodes)

SpecCodes == InitCodes /\ [][Next]_vars

(***************************************************************************)
(* The reader on an open stream: single reads, 16-bit reads and skips in   *)
(* any order, on sources longer than gif_buf.  The bytes after the global  *)
(* colour table tell their offsets apart.                                  *)
(***************************************************************************)
MaxOps == 4
RawLen == 600

\* skips: nothing, one byte, what is left in gif_buf after a table of 256
\* colours (1024 - 781), one more, the longest sub-block
SkipLens == {0, 1, 243, 244, 255}

Pattern(n) == [i \in 1..n |-> i % 251]

SourcesReader ==
  { Source(GIF89a, packed, 2, 2, <<Raw(Pattern(RawLen))>>, 7) : packed \in {128, 135} }

\* the offset in the source of the byte the next gif_buf_read delivers
NextOffset(r) ==
  IF r.gif_buf_idx # r.gif_buf_last_idx
  THEN r.fd_pos - r.gif_buf_last_idx + r.gif_buf_idx
  ELSE r.fd_pos

Op(kind, r, n, b, q) ==
  [kind |-> kind, p |-> NextOffset(r), n |-> n, b |-> b,
   fits |-> n <= r.gif_buf_last_idx - r.gif_buf_idx,
   fd |-> q.fd_pos, moved |-> q.fd_pos # r.fd_pos,
   empty |-> q.gif_buf_idx = q.gif_buf_last_idx]

ReaderStep(r, o) ==
  /\ rd' = r
  /\ hist' = [hist EXCEPT !.ops = Append(@, o)]
  /\ UNCHANGED <<file, input, gif, table, frame, dec, pc, res, player, sketch>>

\* gif_buf_read(fd)
byte_read ==
  /\ pc = "ready" /\ Len(hist.ops) < MaxOps
  /\ rd.file_pos + 1 <= Len(file)
  /\ ReaderStep(gif_buf_read(rd).r, Op("read", rd, 1, gif_buf_read(rd).b, gif_buf_read(rd).r))

\* gif_buf_read16(fd)
word_read ==
  /\ pc = "ready" /\ Len(hist.ops) < MaxOps
  /\ rd.file_pos + 2 <= Len(file)
  /\ ReaderStep(gif_buf_read16(rd).r, Op("read16", rd, 2, gif_buf_read16(rd).v, gif_buf_read16(rd).r))

\* gif_buf_seek(fd, n)
skip ==
  /\ pc = "ready" /\ Len(hist.ops) < MaxOps
  /\ \E n \in SkipLens :
       /\ rd.file_pos + n < Len(file)
       /\ ReaderStep(gif_buf_seek(rd, n), Op("skip", rd, n, -1, gif_buf_seek(rd, n)))

NextReader == open \/ byte_read \/ word_read \/ skip

InitReader == InitOf(SourcesReader)

SpecReader == InitReader /\ [][NextReader]_vars

(***************************************************************************)
(* Sources of one image whose payload is split into sub-blocks in every    *)
(* way                                                                     *)
(***************************************************************************)
\* the sequences of positive lengths that add up to n
RECURSIVE Compositions(_)
Compositions(n) ==
  IF n = 0 THEN {<<>>}
  ELSE UNION { { <<k>> \o c : c \in Compositions(n - k) } : k \in 1..n }

Splits(b) == { [b EXCEPT !.split = c] : c \in Compositions(Len(ImagePayload(b))) }

\* twelve literal codes (3, 4 and 5 bits wide), and the codes of the
\* reference encoder for 1,1,1,1,1,1,0
CodesSplit == CodesLong \cup {LzwCodes(<<1, 1, 1, 1, 1, 1, 0>>, 2)}

\* the image alone or after a comment block
SourcesSplit ==
  UNION { { Source(GIF89a, 128, 4, 4, pre \o <<b>>, 7) :
              b \in Splits(Image(0, 0, 4, 4, FALSE, 2, codes)),
              pre \in {<<>>, <<Comment(<<104, 105>>)>>} } :
            codes \in CodesSplit }

InitSplit == InitOf(SourcesSplit)

SpecSplit == InitSplit /\ [][Next]_vars

(***************************************************************************)
(* Sources of two images, the sub-block of the stop code of the first      *)
(* holding further payload bytes or none                                   *)
(***************************************************************************)
ExtraBytes == { <<>>, <<0>>, <<7>>, <<7, 7>>, <<44, 0, 59>> }

SourcesTail ==
  { Source(GIF89a, 128, 2, 2,
           <<[Literal(0, 0, 2, 2, FALSE, px) EXCEPT !.extra = e]>> \o y
             \o <<Literal(0, 0, 2, 2, FALSE, <<1, 1, 0, 1>>)>>, fill) :
      px \in {<<0, 1, 1, 0>>, <<1, 0, 0, 0>>}, e \in ExtraBytes,
      y \in {<<>>, <<Gce(0, 0, 0)>>, <<Comment(<<104, 105>>)>>}, fill \in Fills }

InitTail == InitOf(SourcesTail)

SpecTail == InitTail /\ [][Next]_vars

(***************************************************************************)
(* Sources of one image made by the reference encoder from a pixel         *)
(* sequence, one row high, on a canvas of the size of the image            *)
(***************************************************************************)
MaxPixels == 7
MaxWide == 4

\* an image of the codes of the reference encoder for the pixels px
Lzw(fw, fh, px) == [Image(0, 0, fw, fh, FALSE, 2, LzwCodes(px, 2)) EXCEPT !.px = px]

\* every sequence of 1..MaxPixels pixels of two colours, and every sequence
\* of 1..MaxWide pixels of four colours, the latter also after a graphic
\* control block
SourcesLzw ==
  UNION { { Source(GIF89a, 128, n, 1, <<Lzw(n, 1, px)>>, 7) : px \in [1..n -> {0, 1}] } :
            n \in 1..MaxPixels }
  \cup UNION { { Source(GIF89a, 129, n, 1, pre \o <<Lzw(n, 1, px)>>, 7) :
                   px \in [1..n -> 0..3], pre \in {<<>>, <<Gce(0, 0, 0)>>} } :
                 n \in 1..MaxWide }

InitLzw == InitOf(SourcesLzw)

SpecLzw == InitLzw /\ [][Next]_vars

(***************************************************************************)
(* Sources of one interlaced literal image, one pixel wide, on a canvas of *)
(* the size of the image                                                   *)
(***************************************************************************)
InterlaceHeights == {1, 2, 3, 4, 5, 7, 8, 9, 16}

\* the image alone or after a graphic control block
SourcesInterlace ==
  { Source(GIF89a, 128, 1, h,
           pre \o <<Literal(0, 0, 1, h, TRUE, [i \in 1..h |-> (i + k) % 2])>>, 7) :
      h \in InterlaceHeights, k \in {0, 1}, pre \in {<<>>, <<Gce(0, 0, 0)>>} }

InitInterlace == InitOf(SourcesInterlace)

SpecInterlace == InitInterlace /\ [][Next]_vars


(***************************************************************************)
(* Sources that fill the dictionary: minimum code size 8, a clear code,    *)
(* one code 0 per entry added, then a few codes more                       *)
(***************************************************************************)
\* the codes 0 after which the entry count is 4096: the i-th is read with
\* 257 + i entries
FullRun == TABLE_SIZE - 257

\* codes read with the table full, a clear code, codes after it, stop
TailFull == <<4095, 258, 0, 256, 0, 1, 258, 257>>

\* minimum code sizes the dictionary of 4096 entries has no room for, and
\* the widest it has room for
WideSizes == {11, 12}

\* the filled dictionary; a short run after a graphic control block; images
\* of a wide minimum code size: clear, two codes, stop
SourcesFull ==
  { Source(GIF89a, 128, 64, 64, <<Filled(0, 0, 64, 64, 8, FullRun, TailFull)>>, 7),
    Source(GIF89a, 128, 64, 64, <<Gce(0, 0, 0), Filled(0, 0, 64, 64, 8, 3, <<0, 257>>)>>, 7) }
  \cup { Source(GIF89a, 128, 4, 4,
                 <<Image(0, 0, 4, 4, FALSE, ms, <<Pow2(ms), 0, 1, Pow2(ms) + 1>>)>>, 7) :
           ms \in WideSizes }

InitFull == InitOf(SourcesFull)

SpecFull == InitFull /\ [][Next]_vars

(***************************************************************************)
(* Sources of every colour table size: a global table, one literal image   *)
(* with or without a local table                                           *)
(***************************************************************************)
\* the 3-bit size fields
SizeFields == 0..7

SourcesPalette ==
  { Source(GIF89a, 128 + s, 2, 2,
           pre \o <<[Literal(0, 0, 2, 2, FALSE, <<0, 1, 1, 0>>) EXCEPT !.local = l]>>, 7) :
      s \in SizeFields, l \in {-1} \cup SizeFields, pre \in {<<>>} }
  \cup { Source(GIF89a, 128 + 7, 2, 2,
                 <<Gce(0, 0, 0), [Literal(0, 0, 2, 2, FALSE, <<0, 1, 1, 0>>) EXCEPT !.local = 7]>>, 7) }

InitPalette == InitOf(SourcesPalette)

SpecPalette == InitPalette /\ [][Next]_vars

(***************************************************************************)
(* Sources of two or three literal images, each with a local colour table  *)
(* or none, alone or after a graphic control block                         *)
(***************************************************************************)
LocalFields == {-1, 0, 1}

LocalImage(l, px) == [Literal(0, 0, 2, 2, FALSE, px) EXCEPT !.local = l]

SourcesLocal ==
  { Source(GIF89a, 128 + s, 2, 2,
           <<LocalImage(a, <<0, 1, 1, 0>>)>> \o pre \o <<LocalImage(b, <<1, 1, 0, 1>>)>>
             \o post, 7) :
      s \in {0, 1}, a \in LocalFields, b \in LocalFields,
      pre \in {<<>>, <<Gce(0, 0, 0)>>},
      post \in {<<>>, <<LocalImage(-1, <<1, 0, 0, 0>>)>>} }

InitLocal == InitOf(SourcesLocal)

SpecLocal == InitLocal /\ [][Next]_vars

(***************************************************************************)
(* The code width of read_image_data over every sequence of codes: the     *)
(* loop of lines 815-831 on key_size, nentries, ret and table_is_full,     *)
(* which depend on a code only through its being the clear code, the stop  *)
(* code or another code.  dec holds the locals, cls the class of the code  *)
(* read last and size the width it was read with; table holds the count.   *)
(***************************************************************************)
MinSizes == 2..11

Classes == {"clear", "stop", "other"}

\* add_entry as far as the count and its return value go
CountEntry(t) ==
  [t |-> [t EXCEPT !.nentries = I16(t.nentries + 1)], ret |-> AddRet(I16(t.nentries + 1))]

\* lines 816-826
WidthHead(m) ==
  IF m.d.cls = "clear" THEN HeadClear(m)
  ELSE IF m.d.table_is_full = 0 THEN HeadAdd(m, CountEntry(m.t))
  ELSE m

\* line 827: a code of class cls is read with key_size bits
WidthRead(m, cls) ==
  [m EXCEPT !.d.size = m.d.key_size, !.d.cls = cls, !.d.stopped = (cls = "stop")]

\* lines 828-830
WidthAfter(m) == IF m.d.cls = "other" THEN Grow(m) ELSE m

\* one iteration of the loop
WidthStep(m, cls) == WidthAfter(WidthRead(WidthHead(m), cls))

\* lines 803-813: minimum code size ms, the first code read with ms + 1 bits
WidthInit(ms, cls) ==
  [d |-> [active |-> TRUE, key_size |-> ms + 1, init_key_size |-> ms + 1, ret |-> 0,
          table_is_full |-> 0, cls |-> cls, size |-> ms + 1, stopped |-> FALSE],
   t |-> [nentries |-> Pow2(ms) + 2, entries |-> NoEntries]]

InitWidth ==
  /\ input = [blocks |-> <<>>] /\ file = <<>>
  /\ rd = ReaderInit /\ gif = ZeroGif /\ frame = <<>>
  /\ pc = "decode" /\ res = -2 /\ hist = HistInit
  /\ player = PlayerInit /\ sketch = SketchInit
  /\ \E ms \in MinSizes, cls \in Classes :
       dec = WidthInit(ms, cls).d /\ table = WidthInit(ms, cls).t

\* one iteration on a code of any class, until the stop code is read
code ==
  /\ ~dec.stopped
  /\ \E cls \in Classes :
       /\ dec' = WidthStep([d |-> dec, t |-> table], cls).d
       /\ table' = WidthStep([d |-> dec, t |-> table], cls).t
  /\ UNCHANGED <<file, rd, gif, frame, pc, res, hist, input, player, sketch>>

SpecWidth == InitWidth /\ [][code]_vars

(***************************************************************************)
(* Sources of every kind of separator: zero bytes and unknown bytes before *)
(* and after one literal image                                             *)
(***************************************************************************)
\* what stands where a block begins
Separators ==
  { <<>>, <<0>>, <<0, 0>>, <<45>>, <<0, 45>>, <<1>>, <<249>>, <<255>>, <<58>>, <<60>> }

\* the end of the stream: the trailer, with zero bytes before it or none
Trailers == { TRAILER, <<0, 59>>, <<0, 0, 59>>, <<>> }

SourcesMarkers ==
  { [Source(GIF89a, 128, 2, 2,
            <<Raw(a), Literal(0, 0, 2, 2, FALSE, <<0, 1, 1, 0>>), Raw(b)>>, 7)
       EXCEPT !.tail = tl] : a \in Separators, b \in Separators, tl \in Trailers }
  \cup { Source(GIF89a, 128, 2, 2,
                 <<Raw(<<0>>), Gce(0, 0, 0), Raw(<<0>>), Comment(<<104>>),
                   Literal(0, 0, 2, 2, FALSE, <<0, 1, 1, 0>>)>>, 7) }

InitMarkers == InitOf(SourcesMarkers)

SpecMarkers == InitMarkers /\ [][Next]_vars

(***************************************************************************)
(* Sources of one extension block of an unknown label before one literal   *)
(* image                                                                   *)
(***************************************************************************)
UnknownLabels == {2, 206, 250}

\* the data of the extension: none, two bytes, bytes that read as
\* separators
UnknownTexts == { <<>>, <<170, 187>>, <<44>>, <<59>>, <<33, 254>>, <<0>> }

SourcesUnknown ==
  { Source(GIF89a, 128, 2, 2,
           <<Unknown(lb, tx), Literal(0, 0, 2, 2, FALSE, px)>>, 7) :
      lb \in UnknownLabels, tx \in UnknownTexts, px \in {<<0, 1, 1, 0>>, <<1, 1, 0, 1>>} }
  \cup { Source(GIF89a, 128, 2, 2,
                 <<Comment(<<170, 187>>), Literal(0, 0, 2, 2, FALSE, <<0, 1, 1, 0>>)>>, 7) }

InitUnknown == InitOf(SourcesUnknown)

SpecUnknown == InitUnknown /\ [][Next]_vars

(***************************************************************************)
(* Sources that end inside the data of their one image, or whose image     *)
(* data leaves out the stop code                                           *)
(***************************************************************************)
\* the first keep bytes of a block
Truncated(b, keep) ==
  [kind |-> "raw", bytes |-> SubSeq(BlockBytes(b), 1, keep), of |-> b, keep |-> keep]

\* the 2x2 images cut: 11 bytes reach to the minimum code size, 16 is the
\* whole block
Keeps == 11..15

CutPixels == { <<0, 1, 1, 0>>, <<1, 1, 1, 1>>, <<0, 0, 0, 0>> }

SourcesTruncated ==
  { [Source(GIF89a, 128, 2, 2, pre \o <<Truncated(Literal(0, 0, 2, 2, FALSE, px), k)>>, 7)
       EXCEPT !.tail = <<>>] :
      px \in CutPixels, k \in Keeps, pre \in {<<>>, <<Gce(0, 0, 0)>>} }

InitTruncated == InitOf(SourcesTruncated)

SpecTruncated == InitTruncated /\ [][Next]_vars

(***************************************************************************)
(* Sources that end inside the sub-blocks of an extension block, after an  *)
(* image or none, and the same sources whole.  The fair specification      *)
(* lets no call rest between two passes of its loops.                      *)
(***************************************************************************)
\* extension blocks whose data discard_sub_blocks skips
Skipped ==
  { Comment(<<104, 105>>), Comment(<<104>>), PlainText(<<111, 107>>),
    [kind |-> "unknown", label |-> 254, text |-> <<1, 2, 3>>] }

\* the bytes kept of an extension block: at least its introducer and label
\* and the length byte of a sub-block, less than the whole
CutsOf(b) == 3..(Len(BlockBytes(b)) - 1)

SourcesEndless ==
  UNION { { [Source(GIF89a, 128, 2, 2, pre \o <<Truncated(b, k)>>, 7) EXCEPT !.tail = <<>>] :
              k \in CutsOf(b), pre \in {<<>>, <<Literal(0, 0, 2, 2, FALSE, <<0, 1, 1, 0>>)>>} } :
          b \in Skipped }
  \cup { Source(GIF89a, 128, 2, 2, <<b, Literal(0, 0, 2, 2, FALSE, <<0, 1, 1, 0>>)>>, 7) :
           b \in Skipped }

InitEndless == InitOf(SourcesEndless)

SpecEndless == InitEndless /\ [][Next]_vars

\* a call that began makes its next pass: the loops of gd_get_frame and of
\* read_image_data run without waiting
FairEndless ==
  SpecEndless /\ WF_vars(read_block) /\ WF_vars(decode_step)

(***************************************************************************)
(* Sources of two images, each after a graphic control block and one more  *)
(* extension block or none                                                 *)
(***************************************************************************)
Controls ==
  { [Gce(1, 1, 300) EXCEPT !.disposal = 2], [Gce(0, 1, 5) EXCEPT !.disposal = 1],
    Gce(0, 0, 0), [Gce(1, 0, 65535) EXCEPT !.disposal = 3] }

Others == { <<>>, <<App(3)>>, <<Comment(<<104, 105>>)>>, <<PlainText(<<111, 107>>)>> }

SourcesControl ==
  { Source(GIF89a, 128, 2, 2,
           <<a>> \o x \o <<Literal(0, 0, 2, 2, FALSE, <<0, 1, 1, 0>>)>> \o y
             \o <<Literal(0, 0, 2, 2, FALSE, <<1, 1, 0, 1>>)>>, 7) :
      a \in Controls, x \in Others, y \in {<<>>} \cup {<<b>> : b \in Controls} }

InitControl == InitOf(SourcesControl)

SpecControl == InitControl /\ [][Next]_vars

(***************************************************************************)
(* The frame loop of playGif (lines 1411-1419) on an opened session:       *)
(* player holds the local t_delay and the arguments of the calls of delay  *)
(***************************************************************************)
PlayGifInit == [t_delay |-> 0, delays |-> <<>>]

\* line 1413
SampleDelay(p, g) == [p EXCEPT !.t_delay = g.gce.delay * 10]

\* lines 1415-1418 once gd_get_frame has returned: the blit and delay(t_delay)
Drawn(p, m) ==
  IF m.pc = "ready" /\ m.res > 0 THEN [p EXCEPT !.delays = Append(@, p.t_delay)] ELSE p

Played(m, p) ==
  /\ rd' = m.r /\ gif' = m.g /\ table' = m.t /\ dec' = m.d
  /\ frame' = m.f /\ hist' = m.h /\ pc' = m.pc /\ res' = m.res
  /\ player' = Drawn(p, m)
  /\ UNCHANGED <<file, input, sketch>>

\* lines 1393-1410: the session is opened, res = 1
play_open ==
  /\ pc = "unopened"
  /\ Played(Opened(Cur, gd_open_gif([rd EXCEPT !.fd_pos = 0])), player)

\* lines 1412-1414: the test of the loop, the sample of the delay and the
\* call of gd_get_frame
play_frame ==
  /\ pc = "ready"
  /\ hist.calls = 0 \/ res > 0
  /\ Played(GetFrame(Cur), SampleDelay(player, gif))

play_block ==
  /\ pc = "blocks"
  /\ Played(BlockStep(Cur), player)

play_decode ==
  /\ pc = "decode"
  /\ Played(DecodeStep(Cur), player)

\* lines 1421-1423: the loop has ended
play_close ==
  /\ pc = "ready"
  /\ hist.calls > 0 /\ res <= 0
  /\ Played(Closed(Cur), player)

NextPlay == play_open \/ play_frame \/ play_block \/ play_decode \/ play_close

InitPlay ==
  /\ \E in \in SourcesControl : input = in /\ file = Serialize(in)
  /\ player = PlayGifInit
  /\ sketch = SketchInit
  /\ rd = ReaderInit
  /\ gif = ZeroGif
  /\ table = new_table
  /\ frame = <<>>
  /\ dec = NoDec
  /\ pc = "unopened"
  /\ res = -2
  /\ hist = HistInit

SpecPlay == InitPlay /\ [][NextPlay]_vars

(***************************************************************************)
(* Two sessions on the one GifClass object: the session playLoopingGif     *)
(* keeps in its statics, and a playGif call made between two of its frame  *)
(* calls.  gif_buf, gif_buf_idx, gif_buf_last_idx and file_pos are members *)
(* of the object (lines 180-181); the File and its position, the gd_GIF,   *)
(* its table and the frame buffer belong to a session.  rd, gif, table,    *)
(* frame, res and hist are those of the session that runs, file and input  *)
(* its source; player holds the session that waits.                        *)
(***************************************************************************)
SharedInit(other) == [active |-> "loop", other |-> other, plays |-> 0, saved |-> <<>>]

\* the part of the state that belongs to the session
Session ==
  [file |-> file, input |-> input, fd_pos |-> rd.fd_pos, gif |-> gif, table |-> table,
   frame |-> frame, res |-> res, hist |-> hist]

\* playLoopingGif lines 1507-1509: gd_rewind when the call did not deliver
LoopReturn(m) ==
  IF player.active = "loop" /\ m.pc = "ready" /\ m.res <= 0 THEN Rewound(m) ELSE m

\* gd_open_gif of the session that runs (line 1448 or line 1394)
shared_open ==
  /\ pc = "unopened"
  /\ Commit(Opened(Cur, gd_open_gif([rd EXCEPT !.fd_pos = 0])))
  /\ UNCHANGED <<file, input>>

\* the call of gd_get_frame of playLoopingGif (line 1474) or of the loop
\* of playGif (lines 1412-1414)
shared_frame ==
  /\ pc = "ready"
  /\ IF player.active = "loop" THEN hist.calls < MaxCalls ELSE hist.calls = 0 \/ res > 0
  /\ Commit(LoopReturn(GetFrame(Cur)))
  /\ UNCHANGED <<file, input>>

shared_block ==
  /\ pc = "blocks"
  /\ Commit(LoopReturn(BlockStep(Cur)))
  /\ UNCHANGED <<file, input>>

shared_decode ==
  /\ pc = "decode"
  /\ Commit(LoopReturn(DecodeStep(Cur)))
  /\ UNCHANGED <<file, input>>

\* playGif is called between two calls of playLoopingGif: LittleFS.open
\* of its file (line 1387)
switch ==
  /\ player.active = "loop" /\ pc = "ready" /\ player.plays < 1
  /\ player' = [player EXCEPT !.active = "once", !.plays = @ + 1, !.saved = Session]
  /\ file' = Serialize(player.other) /\ input' = player.other
  /\ pc' = "unopened" /\ res' = -2 /\ hist' = HistInit
  /\ UNCHANGED <<rd, gif, table, frame, dec, sketch>>

\* the loop of playGif has ended: its session is closed (lines 1421-1423)
\* and the next call of playLoopingGif finds its statics as it left them
resume ==
  /\ player.active = "once" /\ pc = "ready" /\ hist.calls > 0 /\ res <= 0
  /\ player' = [player EXCEPT !.active = "loop", !.saved = <<>>]
  /\ file' = player.saved.file /\ input' = player.saved.input
  /\ rd' = [rd EXCEPT !.fd_pos = player.saved.fd_pos]
  /\ gif' = player.saved.gif /\ table' = player.saved.table
  /\ frame' = player.saved.frame /\ res' = player.saved.res
  /\ hist' = player.saved.hist
  /\ UNCHANGED <<dec, pc, sketch>>

NextShared ==
  shared_open \/ shared_frame \/ shared_block \/ shared_decode \/ switch \/ resume

\* "/fight.gif": two or three images
SourcesLoop ==
  { Source(GIF89a, 128, 2, 2,
           pre \o <<Literal(0, 0, 2, 2, FALSE, <<0, 1, 1, 0>>),
                    Literal(0, 0, 2, 2, FALSE, <<1, 1, 0, 1>>)>> \o post, 7) :
      pre \in {<<>>, <<Gce(0, 0, 5)>>},
      post \in {<<>>, <<Literal(0, 0, 2, 2, FALSE, <<1, 0, 0, 0>>)>>} }

\* "/start.gif"
SourcesOnce ==
  { Source(GIF89a, 128, 2, 2, pre \o <<Literal(0, 0, 2, 2, FALSE, <<1, 1, 1, 1>>)>>, 7) :
      pre \in {<<>>, <<Comment(<<104, 105>>)>>} }

InitShared ==
  /\ \E in \in SourcesLoop : input = in /\ file = Serialize(in)
  /\ \E other \in SourcesOnce : player = SharedInit(other)
  /\ sketch = SketchInit
  /\ rd = ReaderInit
  /\ gif = ZeroGif
  /\ table = new_table
  /\ frame = <<>>
  /\ dec = NoDec
  /\ pc = "unopened"
  /\ res = -2
  /\ hist = HistInit

SpecShared == InitShared /\ [][NextShared]_vars

(***************************************************************************)
(* playGif and playLoopingGif: files, sessions and frame buffers           *)
(***************************************************************************)
MaxOpens == 3

Once == {"/boot.gif", "/start.gif"}
Looping == {"/idle.gif", "/highScore.gif"}

Handle(name, by) ==
  [name |-> name, by |-> by, closes |-> 0, gifs |-> 0, gif_frees |-> 0,
   table_frees |-> 0, bufs |-> 0, buf_frees |-> 0]

LittleFS_open(p, name, by) == [p EXCEPT !.files = Append(@, Handle(name, by))]

FileClose(p, i) == [p EXCEPT !.files[i].closes = @ + 1]

\* gd_open_gif returning a session: calloc and new_table
CallocGif(p, i) == [p EXCEPT !.files[i].gifs = 1]

MallocBuf(p, i) == [p EXCEPT !.files[i].bufs = 1]

\* free(buf); free(NULL) does nothing
FreeBuf(p, i) ==
  IF i = 0 THEN p
  ELSE [p EXCEPT !.files[i].buf_frees = @ + 1,
                 !.fault = IF p.files[i].buf_frees >= 1 THEN "double_free" ELSE @]

\* gd_close_gif: gif->fd->close(), free(gif->table), free(gif); on a session
\* that was freed before, gif->fd and gif->table are read from freed memory
GdCloseGif(p, i) ==
  [p EXCEPT !.files[i].closes = @ + 1, !.files[i].table_frees = @ + 1,
            !.files[i].gif_frees = @ + 1,
            !.fault = IF p.files[i].gif_frees >= 1 THEN "use_after_free" ELSE @]

PlayGifOpened(p, i, valid, room, r) ==
  IF ~valid THEN FileClose(p, i)
  ELSE IF ~room THEN GdCloseGif(CallocGif(p, i), i)
  ELSE [GdCloseGif(FreeBuf(MallocBuf(CallocGif(p, i), i), i), i) EXCEPT !.last = r]

PlayGif(p, name, exists, valid, room, r) ==
  IF ~exists THEN p
  ELSE PlayGifOpened(LittleFS_open(p, name, "playGif"), Len(p.files) + 1,
                     valid, room, r)

\* bool playGif(const char *filename): exists, valid and room say whether
\* LittleFS.open, gd_open_gif and malloc deliver; r is the result of
\* gd_get_frame that ends the frame loop
playGif ==
  /\ player.fault = "none"
  /\ Len(player.files) < MaxOpens
  /\ \E name \in Once, exists \in BOOLEAN, valid \in BOOLEAN, room \in BOOLEAN,
        r \in {0, -1} :
       player' = PlayGif(player, name, exists, valid, room, r)
  /\ UNCHANGED <<file, rd, gif, table, frame, dec, pc, res, hist, input, sketch>>

LoopDrop(p) ==
  IF p.gif # 0
  THEN [GdCloseGif(FreeBuf(p, p.buf), p.gif) EXCEPT !.gif = 0, !.buf = 0]
  ELSE p

LoopReplace(p, name) ==
  IF ~p.isInitialized \/ (p.currentFilename # "" /\ p.currentFilename # name)
  THEN [LoopDrop(p) EXCEPT !.isInitialized = FALSE, !.currentFilename = name]
  ELSE p

LoopOpened(p, i, valid, room) ==
  IF ~valid THEN [FileClose(p, i) EXCEPT !.gif = 0]
  ELSE IF ~room THEN [GdCloseGif(CallocGif(p, i), i) EXCEPT !.gif = i, !.buf = 0]
  ELSE [MallocBuf(CallocGif(p, i), i) EXCEPT !.gif = i, !.buf = i,
                                             !.isInitialized = TRUE]

LoopInit(p, name, exists, valid, room) ==
  IF p.isInitialized \/ p.fault # "none" THEN p
  ELSE IF ~exists THEN [p EXCEPT !.gifFile = 0]
  ELSE LoopOpened([LittleFS_open(p, name, "playLoopingGif")
                     EXCEPT !.gifFile = Len(p.files) + 1],
                  Len(p.files) + 1, valid, room)

\* the frame of a call that is due: on a result of 0 or -1 gd_rewind
LoopFrame(p, due, r) ==
  IF p.isInitialized /\ p.fault = "none" /\ due THEN [p EXCEPT !.last = r] ELSE p

PlayLoopingGif(p, name, exists, valid, room, due, r) ==
  LoopFrame(LoopInit(LoopReplace(p, name), name, exists, valid, room), due, r)

\* void playLoopingGif(const char *filename, ...): one call; due says
\* whether the delay of the last frame has passed
playLoopingGif ==
  /\ player.fault = "none"
  /\ Len(player.files) < MaxOpens
  /\ \E name \in Looping, exists \in BOOLEAN, valid \in BOOLEAN, room \in BOOLEAN,
        due \in BOOLEAN, r \in {1, 0, -1} :
       player' = PlayLoopingGif(player, name, exists, valid, room, due, r)
  /\ UNCHANGED <<file, rd, gif, table, frame, dec, pc, res, hist, input, sketch>>

NextPlayer == playGif \/ playLoopingGif

\* no source is decoded: the decoder members are as constructed
InitPlayer ==
  /\ input = [blocks |-> <<>>] /\ file = <<>>
  /\ rd = ReaderInit /\ gif = ZeroGif /\ table = new_table /\ frame = <<>>
  /\ dec = NoDec /\ pc = "unopened" /\ res = -2 /\ hist = HistInit
  /\ player = PlayerInit
  /\ sketch = SketchInit

SpecPlayer == InitPlayer /\ [][NextPlayer]_vars

(***************************************************************************)
(* loop(): STATE_BOOT, STATE_IDLE and STATE_VOLUME_MENU                    *)
(***************************************************************************)
resetAllButtonStates(s) ==
  [s EXCEPT !.buttonHeld = FALSE, !.externalButtonHeld = FALSE,
            !.waitingForSecondClick = FALSE,
            !.waitingForSecondExternalClick = FALSE,
            !.justExitedVolumeMenu = FALSE,
            !.buttonPressed = FALSE, !.externalButtonPressed = FALSE,
            !.sinceRelease = Far, !.sinceExternalRelease = Far]

\* the buttons of which a read of the pins p sees the release
Releases(s, p) ==
  {b \in {"boot"} : ~p.boot /\ s.buttonHeld}
    \cup {b \in {"ext"} : ~p.ext /\ s.externalButtonHeld}

\* checkDoubleClick, lines 1125-1137
ReleaseFlags(s, p) ==
  [s EXCEPT !.bootButtonJustReleased = @ \/ (~p.boot /\ s.buttonHeld),
            !.buttonHeld = @ /\ p.boot,
            !.externalButtonJustReleased = @ \/ (~p.ext /\ s.externalButtonHeld),
            !.externalButtonHeld = @ /\ p.ext,
            !.seen = Releases(s, p)]

\* variant of InWindow that leaves the last instant of the window out
InWindowOpen(since) == since < DOUBLE_CLICK_WINDOW

InWindow(since) == since <= DOUBLE_CLICK_WINDOW

\* checkDoubleClick, lines 1139-1152
BootClick(s) ==
  IF ~s.bootButtonJustReleased THEN s
  ELSE IF s.waitingForSecondClick /\ InWindow(s.sinceRelease)
  THEN [s EXCEPT !.bootButtonJustReleased = FALSE,
                 !.waitingForSecondClick = FALSE, !.dc = TRUE]
  ELSE [s EXCEPT !.bootButtonJustReleased = FALSE,
                 !.waitingForSecondClick = TRUE, !.sinceRelease = 0]

\* checkDoubleClick, lines 1154-1167; not reached after return true
ExternalClick(s) ==
  IF s.dc \/ ~s.externalButtonJustReleased THEN s
  ELSE IF s.waitingForSecondExternalClick /\ InWindow(s.sinceExternalRelease)
  THEN [s EXCEPT !.externalButtonJustReleased = FALSE,
                 !.waitingForSecondExternalClick = FALSE, !.dc = TRUE]
  ELSE [s EXCEPT !.externalButtonJustReleased = FALSE,
                 !.waitingForSecondExternalClick = TRUE,
                 !.sinceExternalRelease = 0]

checkDoubleClick(s, p) ==
  Then(ReleaseFlags([s EXCEPT !.dc = FALSE], p),
       LAMBDA a : Then(BootClick(a), ExternalClick))

\* handleButtonPress, lines 1202-1212, and loop(), lines 1972-1982
PressFlags(s, q) ==
  [s EXCEPT !.buttonHeld = @ \/ q.boot,
            !.sincePress = IF q.boot /\ ~s.buttonHeld THEN 0 ELSE @,
            !.externalButtonHeld = @ \/ q.ext,
            !.sinceExternalPress = IF q.ext /\ ~s.externalButtonHeld THEN 0 ELSE @]

\* resetHighScore, lines 1257-1263
resetHighScore(s) == [s EXCEPT !.highScore = 0, !.wiped = TRUE]

LongBoot(s) ==
  IF s.buttonHeld /\ s.sincePress >= LONG_PRESS_DURATION
  THEN [resetHighScore(s) EXCEPT !.showResetMessage = TRUE, !.sinceReset = 0,
                                 !.buttonHeld = FALSE]
  ELSE s

LongExternal(s) ==
  IF s.externalButtonHeld /\ s.sinceExternalPress >= LONG_PRESS_DURATION
  THEN [resetHighScore(s) EXCEPT !.showResetMessage = TRUE, !.sinceReset = 0,
                                 !.externalButtonHeld = FALSE]
  ELSE s

handleButtonPress(s, q) ==
  IF s.currentState = "STATE_IDLE"
  THEN Then(PressFlags(s, q), LAMBDA a : Then(LongBoot(a), LongExternal))
  ELSE PressFlags(s, q)

checkButtonRelease(s, q) ==
  [s EXCEPT !.wasPressed = Releases(s, q) # {},
            !.holdDuration = IF ~q.ext /\ s.externalButtonHeld THEN s.sinceExternalPress
                             ELSE IF ~q.boot /\ s.buttonHeld THEN s.sincePress
                             ELSE 0,
            !.buttonHeld = @ /\ q.boot,
            !.externalButtonHeld = @ /\ q.ext,
            !.seen = @ \cup Releases(s, q)]

currentVolume(s) == VOLUME_LEVELS[s.currentVolumeIndex + 1]

\* myDFPlayer.play(track)
play(s, track) ==
  [s EXCEPT !.sent = @ \cup {track},
            !.sentMuted = IF currentVolume(s) = 0 THEN @ \cup {track} ELSE @]

\* the track of a random result sound, lines 1532-1539
ResultTrack(score) == IF score < 150 THEN 3 ELSE IF score < 400 THEN 4 ELSE 5

playSound(s, trackNumber, random, looping) ==
  IF currentVolume(s) = 0 THEN s
  ELSE IF looping THEN play([s EXCEPT !.idleMusicLooping = TRUE], trackNumber)
  ELSE play([s EXCEPT !.idleMusicLooping = FALSE],
            IF random THEN ResultTrack(s.currentScore) ELSE trackNumber)

\* playSound(2); playGif("/start.gif"); currentState = STATE_BOXING
StartGame(s, why) ==
  [playSound(s, 2, FALSE, FALSE) EXCEPT !.currentState = "STATE_BOXING",
                                        !.started = why]

\* variant of Expired that waits for the windows of both buttons
ExpiredBoth(s) ==
  /\ s.waitingForSecondClick /\ s.sinceRelease > DOUBLE_CLICK_WINDOW
  /\ s.waitingForSecondExternalClick /\ s.sinceExternalRelease > DOUBLE_CLICK_WINDOW

\* loop(), lines 2117-2118
Expired(s) ==
  \/ s.waitingForSecondClick /\ s.sinceRelease > DOUBLE_CLICK_WINDOW
  \/ s.waitingForSecondExternalClick /\ s.sinceExternalRelease > DOUBLE_CLICK_WINDOW

\* loop(), lines 2117-2128
Expiry(s) ==
  IF Expired(s)
  THEN StartGame([s EXCEPT !.waitingForSecondClick = FALSE,
                           !.waitingForSecondExternalClick = FALSE], "expired")
  ELSE s

\* loop(), lines 2094-2128
ShortPress(s) ==
  IF ~s.wasPressed THEN Expiry(s)
  ELSE IF s.justExitedVolumeMenu THEN [s EXCEPT !.justExitedVolumeMenu = FALSE]
  ELSE IF s.holdDuration >= LONG_PRESS_DURATION THEN Expiry(s)
  ELSE IF s.waitingForSecondClick \/ s.waitingForSecondExternalClick THEN s
  ELSE Then(StartGame(s, "release"), Expiry)

\* loop(), lines 2088-2091
ExitFlag(s) ==
  IF s.justExitedVolumeMenu /\ ~s.buttonHeld /\ ~s.externalButtonHeld
  THEN [s EXCEPT !.justExitedVolumeMenu = FALSE]
  ELSE s

\* loop(), lines 2080-2129: q is what anyButtonPressed and the reads after
\* it see
IdleButtons(s, q) ==
  IF q.boot \/ q.ext THEN [handleButtonPress(s, q) EXCEPT !.sinceIdle = 0]
  ELSE Then(ExitFlag(s), LAMBDA a : Then(checkButtonRelease(a, q), ShortPress))

\* loop(), lines 2070-2078
IdleClicks(s, q) ==
  IF s.dc THEN [s EXCEPT !.currentState = "STATE_VOLUME_MENU"]
  ELSE IdleButtons(s, q)

\* loop(), lines 2057-2067
Attract(s) ==
  [s EXCEPT !.currentState = IF s.attractShowingHighscore
                             THEN "STATE_ATTRACT_HIGHSCORE"
                             ELSE "STATE_ATTRACT_CREDITS",
            !.sinceAttract = 0]

\* loop(), lines 2016-2052
ResetMessage(s) ==
  IF s.sinceReset >= RESET_MESSAGE_DURATION
  THEN [resetAllButtonStates(s) EXCEPT !.showResetMessage = FALSE, !.sinceIdle = 0]
  ELSE s

\* case STATE_IDLE: p is what the reads of checkDoubleClick see, q what the
\* later reads see
IdlePass(s, p, q) ==
  IF s.showResetMessage THEN ResetMessage(s)
  ELSE IF s.sinceIdle >= IDLE_ATTRACT_DELAY THEN Attract(s)
  ELSE Then(checkDoubleClick(s, p), LAMBDA a : IdleClicks(a, q))

VolumeExit(s) ==
  resetAllButtonStates([s EXCEPT !.currentState = "STATE_IDLE", !.sinceIdle = 0,
                                 !.justExitedVolumeMenu = TRUE])

VolumeLongBoot(s) ==
  IF s.buttonHeld /\ s.sincePress >= VOLUME_MENU_LONG_PRESS_DURATION
  THEN VolumeExit(s) ELSE s

VolumeLongExternal(s) ==
  IF s.externalButtonHeld /\ s.sinceExternalPress >= VOLUME_MENU_LONG_PRESS_DURATION
  THEN VolumeExit(s) ELSE s

\* case STATE_VOLUME_MENU; cycleVolume acts on the volume alone
VolumePass(s, q) ==
  IF q.boot \/ q.ext
  THEN Then(PressFlags(s, q), LAMBDA a : Then(VolumeLongBoot(a), VolumeLongExternal))
  ELSE checkButtonRelease(s, q)

\* case STATE_BOOT: ok is the value of playGif("/boot.gif")
BootPass(s, ok) ==
  IF ok THEN resetAllButtonStates([s EXCEPT !.currentState = "STATE_IDLE",
                                            !.sinceIdle = 0,
                                            !.idleMusicLooping = TRUE,
                                            !.sinceMusic = 0])
  ELSE s

Switch(s, p, q, ok) ==
  IF s.currentState = "STATE_BOOT" THEN BootPass(s, ok)
  ELSE IF s.currentState = "STATE_IDLE" THEN IdlePass(s, p, q)
  ELSE VolumePass(s, q)

\* the time since the release seen before: 0 for a button of seen, Far
\* outside STATE_IDLE
Observed(s, b) ==
  IF s.currentState # "STATE_IDLE" THEN Far
  ELSE IF b \in s.seen THEN 0 ELSE s.last[b]

\* the end of the pass: the values the calls returned are gone
PassEnd(s, p, q) ==
  [s EXCEPT !.dc = FALSE, !.wasPressed = FALSE, !.holdDuration = 0,
            !.low = q, !.polled = TRUE, !.raced = (p # q),
            !.last = [boot |-> Observed(s, "boot"), ext |-> Observed(s, "ext")]]

\* the observations of a step
Unobserved(s) ==
  [s EXCEPT !.sent = {}, !.sentMuted = {}, !.wiped = FALSE, !.sampled = -1,
            !.ran = "none"]

Pass(s, p, q, ok) ==
  Then(Switch([Unobserved(s) EXCEPT !.seen = {}], p, q, ok),
       LAMBDA a : PassEnd(a, p, q))

\* the levels the later reads of a pass can see: those of the first read,
\* or one pin changed in between (not by a player who has left)
Later(s) ==
  {s.low} \cup
  (IF s.gone THEN {}
   ELSE {[s.low EXCEPT !.boot = ~@], [s.low EXCEPT !.ext = ~@]})

Polling == {"STATE_BOOT", "STATE_IDLE", "STATE_VOLUME_MENU"}

Still == UNCHANGED <<file, rd, gif, table, frame, dec, pc, res, hist, input, player>>

\* one pass of loop() in STATE_BOOT, STATE_IDLE or STATE_VOLUME_MENU
loop ==
  /\ sketch.currentState \in Polling
  /\ \E q \in Later(sketch), ok \in BOOLEAN :
       sketch' = Pass(sketch, sketch.low, q, ok)
  /\ Still

\* the player presses or lets go of a button between two passes
toggle ==
  /\ ~sketch.gone
  /\ sketch.currentState \in Polling
  /\ \E q \in Later(sketch) \ {sketch.low} :
       sketch' = [Unobserved(sketch) EXCEPT !.low = q, !.seen = {}, !.raced = FALSE]
  /\ Still

\* the player lets go of the buttons for good
leave ==
  /\ ~sketch.gone
  /\ sketch.currentState \in Polling
  /\ sketch' = [Unobserved(sketch) EXCEPT !.gone = TRUE, !.seen = {}, !.raced = FALSE,
                                           !.low = [boot |-> FALSE, ext |-> FALSE]]
  /\ Still

\* a time stamp a step of time later
OlderBy(since, cap, step) == IF since + step >= cap THEN cap ELSE since + step

Older(since, cap) == OlderBy(since, cap, Unit)

\* the code reads each time stamp under a flag only (buttonHeld,
\* waitingForSecondClick, showResetMessage, STATE_IDLE) and writes it when
\* it sets the flag: while the flag is clear the time stamp is not followed
KeptBy(flag, since, cap, step) == IF flag THEN OlderBy(since, cap, step) ELSE cap

Kept(flag, since, cap) == KeptBy(flag, since, cap, Unit)

\* the time stamps of the buttons a Unit of time later
ButtonsAgedBy(s, step) ==
  [s EXCEPT
     !.sincePress = KeptBy(s.buttonHeld, @, LONG_PRESS_DURATION, step),
     !.sinceExternalPress = KeptBy(s.externalButtonHeld, @, LONG_PRESS_DURATION, step),
     !.sinceRelease = KeptBy(s.waitingForSecondClick, @, Far, step),
     !.sinceExternalRelease = KeptBy(s.waitingForSecondExternalClick, @, Far, step),
     !.sinceIdle = KeptBy(s.currentState = "STATE_IDLE", @, IDLE_ATTRACT_DELAY, step),
     !.sinceReset = KeptBy(s.showResetMessage, @, RESET_MESSAGE_DURATION, step),
     !.last = [boot |-> OlderBy(s.last.boot, Far, step), ext |-> OlderBy(s.last.ext, Far, step)]]

ButtonsAged(s) == ButtonsAgedBy(s, Unit)

Ticked(s) ==
  [Unobserved(ButtonsAged(s)) EXCEPT !.polled = FALSE, !.seen = {}, !.raced = FALSE]

\* millis() advances by Unit; a pass of loop() begins at least once in
\* every Unit of time
tick ==
  /\ sketch.polled
  /\ sketch.currentState \in Polling
  /\ sketch' = Ticked(sketch)
  /\ Still

NextSketch == loop \/ toggle \/ leave \/ tick

InitSketch ==
  /\ input = [blocks |-> <<>>] /\ file = <<>>
  /\ rd = ReaderInit /\ gif = ZeroGif /\ table = new_table /\ frame = <<>>
  /\ dec = NoDec /\ pc = "unopened" /\ res = -2 /\ hist = HistInit
  /\ player = PlayerInit
  /\ sketch = SketchInit

SpecSketch == InitSketch /\ [][NextSketch]_vars

\* loop() is called again and again, and time passes
FairSketch == SpecSketch /\ WF_vars(loop) /\ WF_vars(tick)

(***************************************************************************)
(* One press in STATE_VOLUME_MENU: the player has just pressed a button in *)
(* the volume menu, holds it, lets go of it at some time and presses no    *)
(* button again.                                                           *)
(***************************************************************************)
\* the volume menu, entered from STATE_IDLE, some time later: the pins q
\* have just gone LOW and no pass has seen them
VolumeMenuHeld(q) ==
  [SketchInit EXCEPT !.currentState = "STATE_VOLUME_MENU", !.idleMusicLooping = TRUE,
                     !.sinceIdle = IDLE_ATTRACT_DELAY, !.sinceMusic = 0,
                     !.polled = FALSE, !.low = q]

\* one pass of loop() during which no pin changes
steady ==
  /\ sketch.currentState \in Polling
  /\ sketch' = Pass(sketch, sketch.low, sketch.low, TRUE)
  /\ Still

NextVolume == steady \/ leave \/ tick

InitVolume ==
  /\ input = [blocks |-> <<>>] /\ file = <<>>
  /\ rd = ReaderInit /\ gif = ZeroGif /\ table = new_table /\ frame = <<>>
  /\ dec = NoDec /\ pc = "unopened" /\ res = -2 /\ hist = HistInit
  /\ player = PlayerInit
  /\ \E q \in {[boot |-> TRUE, ext |-> FALSE], [boot |-> FALSE, ext |-> TRUE],
               [boot |-> TRUE, ext |-> TRUE]} :
       sketch = VolumeMenuHeld(q)

SpecVolume == InitVolume /\ [][NextVolume]_vars

(***************************************************************************)
(* The whole of loop(): the battery, the music and every state             *)
(***************************************************************************)
\* every time stamp a Unit of time later; down follows a pin while it is LOW
\* the step of time of the whole loop
GameUnit == 1000

Aged(s) ==
  [ButtonsAgedBy(s, GameUnit) EXCEPT
     !.sinceBattery = OlderBy(@, BATTERY_CHECK_INTERVAL, GameUnit),
     !.sinceWarning = KeptBy(s.currentState = "STATE_LOW_BATTERY_WARNING", @,
                             LOW_BATTERY_WARNING_DURATION, GameUnit),
     !.sinceAttract = KeptBy(s.currentState \in {"STATE_ATTRACT_HIGHSCORE",
                                                 "STATE_ATTRACT_CREDITS"}, @,
                             ATTRACT_DISPLAY_DURATION, GameUnit),
     !.sinceNewHighscore = KeptBy(s.currentState = "STATE_NEW_HIGHSCORE", @,
                                  NEW_HIGHSCORE_DURATION, GameUnit),
     !.sinceContinue = KeptBy(s.timerInitialized, @, CONTINUE_TIMEOUT, GameUnit),
     !.sinceMusic = KeptBy(s.idleMusicLooping \/ s.countdownMusicLooping, @,
                           MUSIC_CHECK_INTERVAL, GameUnit),
     !.sincePunch = KeptBy(s.punchInProgress, @, PunchTime, GameUnit),
     !.sinceMinReset = OlderBy(@, MinResetTime + Unit, GameUnit),
     !.down = [boot |-> KeptBy(s.low.boot, @.boot, LONG_PRESS_DURATION, GameUnit),
               ext |-> KeptBy(s.low.ext, @.ext, LONG_PRESS_DURATION, GameUnit)]]

\* delay(ms)
RECURSIVE Delay(_, _)
Delay(s, ms) ==
  IF ms <= 0 THEN s ELSE Then(Aged(s), LAMBDA a : Delay(a, ms - GameUnit))

ADC_MAX_VALUE == 4095
\* volts times 1000
ADC_REFERENCE_VOLTAGE == 3300
VOLTAGE_DIVIDER_RATIO == 2
BATTERY_MIN_VOLTAGE == 3300
BATTERY_CRITICAL_VOLTAGE == 3100
\* the 0.2 V above BATTERY_MIN_VOLTAGE that end the warning
Recovery == 200

\* readBatteryVoltage() <= mv / 1000: the voltage is
\* adc / ADC_MAX_VALUE * ADC_REFERENCE_VOLTAGE * VOLTAGE_DIVIDER_RATIO, and
\* no reading comes close enough to a threshold for the rounding to decide
AtMost(adc, mv) ==
  adc * ADC_REFERENCE_VOLTAGE * VOLTAGE_DIVIDER_RATIO <= mv * ADC_MAX_VALUE

\* updateBatteryStatus, lines 903-910
Critical(s, adc) ==
  IF AtMost(adc, BATTERY_CRITICAL_VOLTAGE) /\ ~s.criticalBattery
  THEN [s EXCEPT !.criticalBattery = TRUE,
                 !.currentState = "STATE_CRITICAL_BATTERY_SHUTDOWN"]
  ELSE IF ~AtMost(adc, BATTERY_CRITICAL_VOLTAGE) /\ s.criticalBattery
  THEN [s EXCEPT !.criticalBattery = FALSE]
  ELSE s

\* updateBatteryStatus, lines 912-920
Low(s, adc) ==
  IF AtMost(adc, BATTERY_MIN_VOLTAGE) /\ ~s.lowBatteryWarning /\ ~s.criticalBattery
  THEN [s EXCEPT !.lowBatteryWarning = TRUE, !.sinceWarning = 0]
  ELSE IF ~AtMost(adc, BATTERY_MIN_VOLTAGE + Recovery) /\ s.lowBatteryWarning
  THEN [s EXCEPT !.lowBatteryWarning = FALSE]
  ELSE s

\* adc is what analogRead(BATTERY_PIN) returns
updateBatteryStatus(s, adc) ==
  IF s.sinceBattery >= BATTERY_CHECK_INTERVAL
  THEN Then(Critical([s EXCEPT !.sampled = adc, !.sinceBattery = 0], adc),
            LAMBDA a : Low(a, adc))
  ELSE s

\* checkIdleMusic, lines 1557-1566 and 1569-1578: available is what
\* myDFPlayer.available() returns
MusicRestart(s, on, track, available) ==
  IF on /\ s.sinceMusic >= MUSIC_CHECK_INTERVAL
  THEN [(IF available THEN s ELSE play(s, track)) EXCEPT !.sinceMusic = 0]
  ELSE s

checkIdleMusic(s, available) ==
  IF currentVolume(s) = 0
  THEN [s EXCEPT !.idleMusicLooping = FALSE, !.countdownMusicLooping = FALSE]
  ELSE Then(MusicRestart(s, s.idleMusicLooping /\ s.currentState = "STATE_IDLE",
                         1, available),
            LAMBDA a : MusicRestart(a, a.countdownMusicLooping
                                         /\ a.currentState = "STATE_RESULT"
                                         /\ a.resultPhase = 2, 10, available))

\* variant of ForceWarning that also leaves the shutdown state
ForceWarningAlways(s) ==
  IF s.lowBatteryWarning /\ s.currentState # "STATE_LOW_BATTERY_WARNING"
  THEN [s EXCEPT !.currentState = "STATE_LOW_BATTERY_WARNING", !.sinceWarning = 0]
  ELSE s

\* loop(), lines 1810-1816
ForceWarning(s) ==
  IF s.lowBatteryWarning /\ s.currentState # "STATE_LOW_BATTERY_WARNING"
     /\ s.currentState # "STATE_CRITICAL_BATTERY_SHUTDOWN"
  THEN [s EXCEPT !.currentState = "STATE_LOW_BATTERY_WARNING", !.sinceWarning = 0]
  ELSE s

ToIdle(s) == [s EXCEPT !.currentState = "STATE_IDLE", !.sinceIdle = 0]

\* case STATE_LOW_BATTERY_WARNING
WarningPass(s, q) ==
  Then(IF s.sinceWarning >= LOW_BATTERY_WARNING_DURATION /\ ~s.criticalBattery
       THEN ToIdle(s) ELSE s,
       LAMBDA a : IF q.boot \/ q.ext THEN ToIdle(a) ELSE a)

\* case STATE_CRITICAL_BATTERY_SHUTDOWN: delay(3000), esp_deep_sleep_start()
ShutdownPass(s) == [Delay(s, 3000) EXCEPT !.asleep = TRUE]

\* case STATE_NEW_HIGHSCORE
NewHighscorePass(s) ==
  IF s.sinceNewHighscore >= NEW_HIGHSCORE_DURATION
  THEN [s EXCEPT !.currentState = "STATE_RESULT", !.resultPhase = 2]
  ELSE s

\* cycleVolume, lines 982-995
cycleVolume(s) ==
  [s EXCEPT !.currentVolumeIndex = (@ + 1) % NUM_VOLUME_LEVELS,
            !.cycles = @ + 1]

\* case STATE_VOLUME_MENU, lines 2003-2011
VolumeRelease(s) ==
  IF s.wasPressed /\ s.holdDuration < VOLUME_MENU_LONG_PRESS_DURATION
  THEN cycleVolume(s) ELSE s

\* cases STATE_ATTRACT_HIGHSCORE and STATE_ATTRACT_CREDITS, the buttons
AttractRelease(s) ==
  IF s.wasPressed /\ s.holdDuration < LONG_PRESS_DURATION
  THEN StartGame(s, "attract") ELSE s

AttractButtons(s, q) ==
  IF q.boot \/ q.ext THEN handleButtonPress(s, q)
  ELSE Then(checkButtonRelease(s, q), AttractRelease)

\* the end of the display time: elapsed was taken before the buttons
AttractEnd(s, elapsed, highscoreNext) ==
  IF elapsed >= ATTRACT_DISPLAY_DURATION
  THEN ToIdle([s EXCEPT !.attractShowingHighscore = highscoreNext])
  ELSE s

AttractPass(s, q) ==
  Then(AttractButtons(s, q),
       LAMBDA a : IF (q.boot \/ q.ext) /\ a.showResetMessage
                  THEN [a EXCEPT !.currentState = "STATE_IDLE"]
                  ELSE AttractEnd(a, s.sinceAttract,
                                  s.currentState = "STATE_ATTRACT_CREDITS"))

\* the quotient of C, truncated towards zero
Quot(a, b) ==
  IF (a >= 0) = (b > 0) THEN (IF a >= 0 THEN a ELSE -a) \div (IF b > 0 THEN b ELSE -b)
  ELSE -((IF a >= 0 THEN a ELSE -a) \div (IF b > 0 THEN b ELSE -b))

\* map() of the Arduino core
map(x, in_min, in_max, out_min, out_max) ==
  Quot((x - in_min) * (out_max - out_min), in_max - in_min) + out_min

\* variant of constrain without the upper limit
constrainBelow(x, lo, hi) == IF x < lo THEN lo ELSE x

\* constrain() of the Arduino core
constrain(x, lo, hi) == IF x < lo THEN lo ELSE IF x > hi THEN hi ELSE x

\* scoreCalibration, in tenths
scoreCalibration == 10

\* calculateScore, lines 1582-1598
BaseScore(fsrValue) ==
  IF fsrValue >= 3900 THEN 0
  ELSE IF fsrValue >= 3000 THEN map(fsrValue, 3900, 3000, 0, 100)
  ELSE IF fsrValue >= 2000 THEN map(fsrValue, 3000, 2000, 100, 300)
  ELSE IF fsrValue >= 1000 THEN map(fsrValue, 2000, 1000, 300, 600)
  ELSE IF fsrValue >= 500 THEN map(fsrValue, 1000, 500, 600, 850)
  ELSE constrain(map(fsrValue, 500, 150, 850, 999), 850, 999)

\* (int)(baseScore * scoreCalibration)
Calibrated(baseScore) == Quot(baseScore * scoreCalibration, 10)

calculateScore(fsrValue) == constrain(Calibrated(BaseScore(fsrValue)), 0, 999)

\* case STATE_BOXING, lines 2227-2230
MinForgotten(s) ==
  IF s.sinceMinReset > MinResetTime /\ ~s.punchInProgress
  THEN [s EXCEPT !.continuousMinFSR = NoReading, !.sinceMinReset = 0]
  ELSE s

\* lines 2232-2241: fsr is what analogRead(FSR_PIN) returns
MinTaken(s, fsr) ==
  IF fsr < s.continuousMinFSR
  THEN [s EXCEPT !.continuousMinFSR = fsr,
                 !.punchInProgress = @ \/ fsr < PunchReading,
                 !.sincePunch = IF fsr < PunchReading /\ ~s.punchInProgress
                                THEN 0 ELSE @]
  ELSE s

\* lines 2243-2261
PunchDone(s) ==
  IF s.punchInProgress /\ s.sincePunch >= PunchTime
  THEN [s EXCEPT !.currentScore = calculateScore(s.continuousMinFSR),
                 !.waitingForPunch = FALSE, !.punchInProgress = FALSE,
                 !.continuousMinFSR = NoReading,
                 !.currentState = "STATE_RESULT", !.rounds = @ + 1]
  ELSE s

BoxingPass(s, fsr) ==
  IF s.waitingForPunch
  THEN Then(MinForgotten(s), LAMBDA a : Then(MinTaken(a, fsr), PunchDone))
  ELSE s

\* animateScoreCount, line 1615
animateScoreCount(s) == play(s, 9)

\* saveHighScore, lines 1245-1251
saveHighScore(s, newScore) == [s EXCEPT !.highScore = newScore]

\* case STATE_RESULT, resultPhase 0
ResultShown(s) ==
  Then(animateScoreCount(s),
       LAMBDA a :
         IF a.currentScore > a.highScore
         THEN [playSound(saveHighScore(a, a.currentScore), 8, FALSE, FALSE)
                 EXCEPT !.currentState = "STATE_NEW_HIGHSCORE",
                        !.sinceNewHighscore = 0, !.resultPhase = 2]
         ELSE [Delay(playSound(a, 0, TRUE, FALSE), 3000) EXCEPT !.resultPhase = 2])

\* resultPhase 2, lines 2303-2318
ContinueTimer(s) ==
  IF s.timerInitialized THEN s
  ELSE [s EXCEPT !.sinceContinue = 0, !.timerInitialized = TRUE,
                 !.countdownMusicStarted = FALSE]

CountdownStart(s) ==
  IF s.countdownMusicStarted THEN s
  ELSE [(IF currentVolume(s) > 0
         THEN play([s EXCEPT !.countdownMusicLooping = TRUE, !.sinceMusic = 0], 10)
         ELSE s) EXCEPT !.countdownMusicStarted = TRUE]

\* lines 2362-2367 and 2386-2391
NewRound(s) ==
  resetAllButtonStates([s EXCEPT !.countdownMusicLooping = FALSE,
                                 !.waitingForPunch = TRUE, !.resultPhase = 0,
                                 !.timerInitialized = FALSE])

\* lines 2358-2402
ContinueEnd(s, q) ==
  IF s.sinceContinue >= CONTINUE_TIMEOUT
  THEN playSound(ToIdle(NewRound(s)), 1, FALSE, TRUE)
  ELSE IF (q.boot \/ q.ext) /\ ~s.buttonPressed /\ ~s.externalButtonPressed
  THEN StartGame(NewRound([s EXCEPT !.buttonPressed = TRUE,
                                    !.externalButtonPressed = TRUE]), "continue")
  ELSE IF ~(q.boot \/ q.ext)
  THEN [s EXCEPT !.buttonPressed = FALSE, !.externalButtonPressed = FALSE]
  ELSE s

ResultPass(s, q) ==
  IF s.resultPhase = 0 THEN ResultShown(s)
  ELSE IF s.resultPhase = 2
  THEN Then(ContinueTimer(s),
            LAMBDA a : Then(CountdownStart(a), LAMBDA b : ContinueEnd(b, q)))
  ELSE s

\* switch (currentState), lines 1818-2403
GameSwitch(s, p, q, ok, fsr) ==
  IF s.currentState \in {"STATE_BOOT", "STATE_IDLE"} THEN Switch(s, p, q, ok)
  ELSE IF s.currentState = "STATE_VOLUME_MENU"
  THEN Then(VolumePass(s, q), VolumeRelease)
  ELSE IF s.currentState = "STATE_LOW_BATTERY_WARNING" THEN WarningPass(s, q)
  ELSE IF s.currentState = "STATE_CRITICAL_BATTERY_SHUTDOWN" THEN ShutdownPass(s)
  ELSE IF s.currentState = "STATE_NEW_HIGHSCORE" THEN NewHighscorePass(s)
  ELSE IF s.currentState = "STATE_BOXING" THEN BoxingPass(s, fsr)
  ELSE IF s.currentState = "STATE_RESULT" THEN ResultPass(s, q)
  ELSE AttractPass(s, q)

\* the time a pin has been LOW, after a step that saw it change; the
\* releases seen before are not followed
Down(s, p, q) ==
  [s EXCEPT !.down = [boot |-> IF q.boot /\ ~p.boot THEN 0 ELSE @.boot,
                      ext |-> IF q.ext /\ ~p.ext THEN 0 ELSE @.ext],
            !.seen = {}, !.raced = FALSE, !.last = [boot |-> Far, ext |-> Far]]

\* loop(), lines 1802-2405: p and q are the levels of the pins
GamePass(s, p, q, ok, adc, available, fsr) ==
  Then(updateBatteryStatus([Unobserved(s) EXCEPT !.seen = {}], adc),
       LAMBDA a :
         Then(checkIdleMusic(a, available),
              LAMBDA b :
                Then(ForceWarning(b),
                     LAMBDA c :
                       Then(GameSwitch([c EXCEPT !.ran = c.currentState],
                                       p, q, ok, fsr),
                            LAMBDA d : [Down(PassEnd(d, p, q), p, q)
                                          EXCEPT !.changed = FALSE]))))

\* readings of the battery: the highest critical one, the lowest above it
\* (low), the lowest that ends the warning
BatteryReadings == {1923, 1924, 2172}
\* readings of the force sensor: at rest, punches
ForceReadings == {4000, 100}
\* the high scores and volume indices the preferences can hold
StoredScores == {500}
StoredVolumes == {0, 3}
\* the punches scored and the changes of the volume that are followed
MaxRounds == 1
MaxCycles == 1
\* the times the player presses or lets go of the button
MaxPresses == 4

\* the values a pass can read: those of S in the state that reads them (any
\* one of them in a state that does not), and a battery reading when one is due
ReadIn(s, state, S) ==
  IF s.currentState = state THEN S ELSE {CHOOSE v \in S : TRUE}

Sampled(s) ==
  IF s.sinceBattery >= BATTERY_CHECK_INTERVAL THEN BatteryReadings
  ELSE {CHOOSE adc \in BatteryReadings : TRUE}

Asked(s) ==
  IF s.sinceMusic >= MUSIC_CHECK_INTERVAL THEN BOOLEAN ELSE {TRUE}

\* the levels of the pins after the player pressed or let go of the boot
\* button
Pressed(s) ==
  IF s.presses < MaxPresses THEN {[s.low EXCEPT !.boot = ~@]} ELSE {}

\* setup(), lines 1734-1800: loadHighScore, loadVolume, myDFPlayer.play(1)
setup ==
  /\ ~sketch.booted
  /\ \E score \in StoredScores, index \in StoredVolumes :
       sketch' = [play([Unobserved(sketch) EXCEPT !.highScore = score,
                                                  !.currentVolumeIndex = index], 1)
                    EXCEPT !.booted = TRUE, !.currentState = "STATE_BOOT",
                           !.sinceBattery = 0]
  /\ Still

\* one pass of loop()
pass ==
  /\ sketch.booted /\ ~sketch.asleep
  /\ \E q \in {sketch.low}, ok \in ReadIn(sketch, "STATE_BOOT", BOOLEAN),
        adc \in Sampled(sketch), available \in Asked(sketch),
        fsr \in ReadIn(sketch, "STATE_BOXING", ForceReadings) :
       /\ sketch' = GamePass(sketch, sketch.low, q, ok, adc, available, fsr)
       /\ sketch'.rounds <= MaxRounds /\ sketch'.cycles <= MaxCycles
  /\ Still

\* the player presses or lets go of the button between two passes, once:
\* a pass takes less time than the player
button ==
  /\ sketch.booted /\ ~sketch.asleep /\ ~sketch.changed
  /\ \E q \in Pressed(sketch) :
       sketch' = Down([Unobserved(sketch) EXCEPT !.low = q, !.presses = @ + 1,
                                                 !.changed = TRUE],
                      sketch.low, q)
  /\ Still

\* millis() advances by Unit
time ==
  /\ sketch.booted /\ ~sketch.asleep
  /\ sketch.polled
  /\ sketch' = [Unobserved(Aged(sketch)) EXCEPT !.polled = FALSE]
  /\ Still

NextGame == setup \/ pass \/ button \/ time

InitGame ==
  /\ input = [blocks |-> <<>>] /\ file = <<>>
  /\ rd = ReaderInit /\ gif = ZeroGif /\ table = new_table /\ frame = <<>>
  /\ dec = NoDec /\ pc = "unopened" /\ res = -2 /\ hist = HistInit
  /\ player = PlayerInit
  /\ sketch = [SketchInit EXCEPT !.booted = FALSE]

SpecGame == InitGame /\ [][NextGame]_vars

(***************************************************************************)
(* calculateScore over every reading of the 12-bit converter: a punch of   *)
(* STATE_BOXING that ends with the minimum reading fsr                     *)
(***************************************************************************)
InitScore ==
  /\ input = [blocks |-> <<>>] /\ file = <<>>
  /\ rd = ReaderInit /\ gif = ZeroGif /\ table = new_table /\ frame = <<>>
  /\ dec = NoDec /\ pc = "unopened" /\ res = -2 /\ hist = HistInit
  /\ player = PlayerInit
  /\ \E fsr \in 0..ADC_MAX_VALUE :
       sketch = [SketchInit EXCEPT !.currentState = "STATE_BOXING",
                                   !.continuousMinFSR = fsr,
                                   !.punchInProgress = TRUE]

\* lines 2243-2261: the punch has lasted 500 ms
punch ==
  /\ sketch.currentState = "STATE_BOXING"
  /\ sketch' = PunchDone(sketch)
  /\ Still

SpecScore == InitScore /\ [][punch]_vars
(***************************************************************************)
(* Properties                                                              *)
(***************************************************************************)
\* the frame buffer as the sequence of its bytes
Buffer == [i \in 1..Cardinality(DOMAIN frame) |-> frame[i - 1]]

\* C1: gd_open_gif returns a session exactly when the first six bytes of
\* the file are "GIF89a" and bit 7 of the packed byte of the screen
\* descriptor (the eleventh byte) is set; otherwise it returns none.
OpenSucceedsIff ==
  pc # "unopened" =>
    ((pc # "failed") <=> (SubSeq(file, 1, 6) = GIF89a /\ BitAnd(file[11], 128) # 0))

\* open succeeded on a packed byte with bit 7 and more bits set
OpenSucceeded ==
  /\ pc = "ready" /\ hist.calls = 0
  /\ SubSeq(file, 1, 6) = GIF89a /\ file[11] = 240
  /\ gif.width = 2 /\ gif.height = 2

\* the pixels the current call emitted, by linear position
Emitted == {[p |-> e.p, v |-> e.v] : e \in hist.emit}

PixelsOf(b) == {[p |-> i - 1, v |-> b.px[i]] : i \in 1..Len(b.px)}

DecodedBlock(b) ==
  /\ res = 1
  /\ gif.fx = b.fx /\ gif.fy = b.fy /\ gif.fw = b.fw /\ gif.fh = b.fh
  /\ Emitted = PixelsOf(b)

LiteralAt(b) ==
  \A i \in 0..(b.fw * b.fh - 1) :
    frame[(b.fy + (i \div b.fw)) * input.w + b.fx + (i % b.fw)] = b.px[i + 1]

\* C3: a first frame that is one non-interlaced image of a clear code, one
\* literal code per pixel and the stop code leaves the i-th encoded pixel at
\* buffer index (fy + i div fw) * canvas width + fx + (i mod fw).
LiteralRoundTrip ==
  (WellFormed(input) /\ Len(input.blocks) = 1 /\ input.blocks[1].kind = "image"
     /\ pc = "ready" /\ hist.calls = 1) =>
    (res = 1 /\ LiteralAt(input.blocks[1]))

\* the image of pixels 1,0 placed in the right column was decoded
LiteralColumnDecoded ==
  /\ pc = "ready" /\ hist.calls = 1 /\ res = 1
  /\ Len(input.blocks) = 1
  /\ input.blocks[1].fx = 1 /\ input.blocks[1].fw = 1 /\ input.blocks[1].fh = 2
  /\ input.blocks[1].px = <<1, 0>>
  /\ frame[1] = 1 /\ frame[3] = 0

\* the first image of the source covers the whole canvas
FirstCoversCanvas ==
  /\ WellFormed(input) /\ Len(ImagesOf(input)) >= 1
  /\ ImagesOf(input)[1].fx = 0 /\ ImagesOf(input)[1].fy = 0
  /\ ImagesOf(input)[1].fw = input.w /\ ImagesOf(input)[1].fh = input.h

\* C4: the gd_get_frame call that follows a gd_rewind leaves the buffer
\* equal, byte for byte, to the buffer the first gd_get_frame call after
\* open left, whatever was decoded before the rewind.  Stated for the
\* sources whose first image covers the whole canvas, so that every byte of
\* the buffer is one the first image emits.
RewindReproducesFirst ==
  (FirstCoversCanvas /\ pc = "ready" /\ res = 1
     /\ hist.rewinds >= 1 /\ hist.sincerw = 1) =>
    frame = hist.first

\* C5: a pixel of the transparent index emitted by a frame that is not the
\* first decoded leaves the destination byte as it was before the call; the
\* first frame decoded after open stores every pixel it emits.
TransparentKeepsFirstWrites ==
  \A e \in hist.emit :
    e.idx \in DOMAIN frame =>
      /\ hist.nth = 1 => (e.w /\ frame[e.idx] = e.v)
      /\ (hist.nth > 1 /\ e.v = gif.gce.tindex) => frame[e.idx] = hist.pre[e.idx]

\* a second frame emitted the transparent index over a byte of another value
TransparentOverOther ==
  /\ hist.nth = 2 /\ gif.gce.transparency = 1
  /\ \E e \in hist.emit :
       /\ e.v = gif.gce.tindex /\ ~e.w
       /\ e.idx \in DOMAIN frame /\ hist.pre[e.idx] # e.v

\* C6: a pixel is skipped only when the frame is not the first decoded, the
\* transparency flag of the graphic control block is set and the pixel is
\* the transparent index.
SkipsOnlyWhenFlagged ==
  \A e \in hist.emit :
    ~e.w => (hist.nth > 1 /\ gif.gce.transparency = 1 /\ e.v = gif.gce.tindex)

InRect(i) ==
  /\ (i % gif.width) >= gif.fx /\ (i % gif.width) < gif.fx + gif.fw
  /\ (i \div gif.width) >= gif.fy /\ (i \div gif.width) < gif.fy + gif.fh

\* C7: a gd_get_frame call changes no buffer byte outside the placement
\* rectangle [fx, fx+fw) x [fy, fy+fh) of its image, whatever the codes.
WritesInsideRectangle ==
  (pc \in {"ready", "decode", "ub"} /\ hist.calls >= 1) =>
    \A i \in DOMAIN frame : ~InRect(i) => frame[i] = hist.pre[i]

\* the rows below h of one pass, in order
PassRows(h, first, step) ==
  [i \in 1..(IF h > first THEN ((h - first - 1) \div step) + 1 ELSE 0) |->
     first + (i - 1) * step]

\* rows 0,8,.. then 4,12,.. then 2,6,.. then 1,3,..
FourPassRows(h) ==
  PassRows(h, 0, 8) \o PassRows(h, 4, 8) \o PassRows(h, 2, 4) \o PassRows(h, 1, 2)

\* C8: for the height h of an interlaced image, interlaced_line_index(h, y)
\* for y = 0..h-1 lists the rows 0..h-1 in four-pass order.
InterlaceIsFourPass ==
  (dec.active /\ dec.interlace # 0 /\ gif.fh >= 1) =>
    \A y \in 0..(gif.fh - 1) :
      interlaced_line_index(I16(gif.fh), y) = FourPassRows(gif.fh)[y + 1]

IsPow2(n) == n > 0 /\ BitAnd(n, n - 1) = 0

\* no code before the i-th was a clear code read at an entry count that is
\* a power of two
NoClearAtPow2(i) ==
  \A j \in 1..(i - 1) :
    ~(hist.reads[j].key = dec.clear /\ IsPow2(hist.reads[j].n))

\* the least width from w up whose codes number more than n
RECURSIVE WidthBelow(_, _)
WidthBelow(n, w) == IF n < Pow2(w) THEN w ELSE WidthBelow(n, w + 1)

\* the least width from w up whose codes number at least n
RECURSIVE WidthUpTo(_, _)
WidthUpTo(n, w) == IF n <= Pow2(w) THEN w ELSE WidthUpTo(n, w + 1)

ClearResetsWidth ==
  \A j \in 1..Len(hist.reads) :
    hist.reads[j].key = dec.clear =>
      \A i \in (j + 1)..Len(hist.reads) :
        (\A l \in (j + 1)..i : hist.reads[l].n < Pow2(dec.init_key_size)) =>
          /\ hist.reads[i].size = dec.init_key_size
          /\ i = j + 1 => hist.reads[i].n = dec.clear + 2


(***************************************************************************)
(* Dictionary size                                                         *)
(***************************************************************************)
\* a step of the code loop that began with the table full and a code other
\* than the clear code in hand leaves the table as it was and does not fault
FrozenStep ==
  (pc = "decode" /\ dec.table_is_full = 1 /\ dec.key # dec.clear) =>
    (table' = table /\ pc' # "ub")

\* a step of the code loop that began with the clear code in hand sets the
\* entry count to clear + 2 and lifts the full mark
ClearStep ==
  (pc = "decode" /\ dec.key = dec.clear) =>
    (table'.nentries = dec.clear + 2 /\ (pc' = "decode" => dec'.table_is_full = 0))

\* a step of the code loop that began with room in the table and a code
\* other than the clear code in hand writes the entry of the old count only
AddStep ==
  (pc = "decode" /\ dec.table_is_full = 0 /\ dec.key # dec.clear /\ pc' # "ub") =>
    /\ table'.nentries = table.nentries + 1
    /\ \A k \in DOMAIN table.entries : k # table.nentries => table'.entries[k] = table.entries[k]
    /\ DOMAIN table'.entries = DOMAIN table.entries \cup {table.nentries}

\* C11: during a frame decode the entry count never exceeds 4096; once it
\* is 4096 no entry is added or altered and decoding goes on without a fault
\* until a clear code is read, after which entries are added from clear + 2.
TableBounded ==
  [][table'.nentries <= TABLE_SIZE /\ FrozenStep /\ ClearStep /\ AddStep]_vars

\* the same for the images whose minimum code size leaves room for the
\* clear and stop codes in the table
TableBoundedBelow12 ==
  [][(\A i \in 1..Len(input.blocks) :
        input.blocks[i].kind = "image" => input.blocks[i].m < 12) =>
       (table'.nentries <= TABLE_SIZE /\ FrozenStep /\ ClearStep /\ AddStep)]_vars

\* a clear code was read with 4096 entries, and the second code after it was
\* read with clear + 3 entries: the entry clear + 2 is written again
ResumedAfterFull ==
  /\ pc = "decode"
  /\ \E j \in 1..(Len(hist.reads) - 2) :
       /\ hist.reads[j].n = TABLE_SIZE /\ hist.reads[j].key = dec.clear
       /\ hist.reads[j + 1].n = dec.clear + 2
       /\ hist.reads[j + 2].n = dec.clear + 3
  /\ EntryAt(table, dec.clear + 2).len # Uninit

\* an image of minimum code size 12 began: 4098 entries are counted
CountAboveTable == pc = "decode" /\ table.nentries > TABLE_SIZE

(***************************************************************************)
(* Colour tables                                                           *)
(***************************************************************************)
\* five bits of red, six of green, five of blue, red highest
Shade(r, g, b) == (r \div 8) * 2048 + (g \div 4) * 32 + (b \div 8)

\* the i-th colour of a table whose bytes follow the byte at index off of
\* the file
FileColour(off, i) == Shade(file[off + 3 * i - 2], file[off + 3 * i - 1], file[off + 3 * i])

\* pal is the table of the size field of the byte at index packed of the
\* file, read from the bytes after the byte at index off
TableFromFile(pal, packed, off) ==
  /\ pal.len = Pow2((file[packed] % 8) + 1)
  /\ pal.len \in {2, 4, 8, 16, 32, 64, 128, 256}
  /\ Len(pal.colors) = pal.len
  /\ \A i \in 1..pal.len : pal.colors[i] \in 0..65535 /\ pal.colors[i] = FileColour(off, i)

\* the index in the file of the packed byte of the first image descriptor
FirstImagePacked ==
  13 + 3 * Pow2((file[11] % 8) + 1)
    + Len(BlocksBytes(SubSeq(input.blocks, 1,
            (CHOOSE k \in 1..Len(input.blocks) :
               /\ input.blocks[k].kind = "image"
               /\ \A j \in 1..(k - 1) : input.blocks[j].kind # "image") - 1)))
    + 10

\* C12: every colour of the global and of the local table is the 16-bit
\* value ((r & 0xF8) << 8) | ((g & 0xFC) << 3) | ((b & 0xF8) >> 3) of its
\* three bytes, and a table holds 2^(s+1) colours for its size field s.
PalettesStored ==
  pc \in {"ready", "blocks", "decode"} =>
    /\ TableFromFile(gif.gct, 11, 13)
    /\ gif.palette = "lct" => TableFromFile(gif.lct, FirstImagePacked, FirstImagePacked)

\* a frame was decoded with a local table of 256 colours over a global
\* table of 256 colours, and the tables hold bytes with low bits set
BothTablesFull ==
  /\ pc = "ready" /\ res = 1 /\ gif.palette = "lct"
  /\ gif.lct.len = 256 /\ gif.gct.len = 256
  /\ \E i \in 1..256 : file[13 + 3 * i - 1] % 4 # 0 /\ file[13 + 3 * i] % 8 # 0

(***************************************************************************)
(* Block separators                                                        *)
(***************************************************************************)
\* the separator the last call decided on is a byte of the file
SepInFile == hist.seppos >= 0 /\ hist.seppos < Len(file)

\* C13: gd_get_frame returns -1 whenever the separator byte, after at most
\* one zero byte skipped, is none of ',' ';' '!', and returns 0 exactly when
\* it is ';'.
SeparatorDecides ==
  (pc = "ready" /\ hist.calls > 0) =>
    /\ hist.sep \notin {44, 59, 33} => res = -1
    /\ res = 0 <=> hist.sep = 59
    /\ res = 1 => hist.sep = 44
    /\ SepInFile => hist.sep = file[hist.seppos + 1]
    /\ (SepInFile /\ hist.sep = 0) => (hist.seppos >= 1 /\ file[hist.seppos] = 0)

\* a call returned 0 on a trailer that follows one zero byte
TrailerAfterZero ==
  /\ pc = "ready" /\ res = 0 /\ hist.sep = 59
  /\ SepInFile /\ hist.seppos >= 1 /\ file[hist.seppos] = 0

\* a call returned -1 on the second of two zero bytes
SecondZeroFails ==
  /\ pc = "ready" /\ res = -1 /\ hist.sep = 0 /\ SepInFile

(***************************************************************************)
(* Extension blocks of an unknown label                                    *)
(***************************************************************************)
\* the first gd_get_frame call of a source that begins with an extension
\* block of an unknown label returned
AfterUnknown ==
  /\ Len(input.blocks) = 2 /\ input.blocks[1].kind = "unknown"
  /\ pc = "ready" /\ hist.calls = 1 /\ hist.rewinds = 0

\* C14: an extension block whose label is none of 0x01, 0xF9, 0xFE, 0xFF is
\* skipped with its sub-blocks, and the gd_get_frame call returns 1 with
\* the image block that follows it decoded.
UnknownExtensionSkipped ==
  AfterUnknown => DecodedBlock(input.blocks[2])

\* the same for the extension blocks that hold no data
UnknownEmptySkipped ==
  (AfterUnknown /\ input.blocks[1].text = <<>>) => DecodedBlock(input.blocks[2])

\* the call read the length byte of the first sub-block as a separator
LengthReadAsSeparator ==
  /\ AfterUnknown /\ input.blocks[1].text = <<170, 187>>
  /\ res = -1 /\ hist.sep = 2 /\ hist.frames = 0

(***************************************************************************)
(* Image data that ends early                                              *)
(***************************************************************************)
\* the source ends inside the data of its image block
EndsInData ==
  /\ input.blocks[Len(input.blocks)].kind = "raw"
  /\ input.blocks[Len(input.blocks)].of.kind = "image"
  /\ input.blocks[Len(input.blocks)].keep >= 11
  /\ input.tail = <<>>

\* C15: the gd_get_frame call that decodes an image whose data ends before
\* its stop code returns -1, not 1.
TruncatedReportsError ==
  (EndsInData /\ pc = "ready" /\ hist.calls = 1 /\ hist.rewinds = 0) => res = -1

\* the call returned 1 for an image whose data ends before its stop code
TruncatedDecoded ==
  /\ EndsInData /\ pc = "ready" /\ hist.calls = 1 /\ hist.rewinds = 0
  /\ res = 1 /\ hist.frames = 1

\* the call read outside the read buffer and did not return
TruncatedFaulted == EndsInData /\ pc = "ub"

\* no gd_get_frame call returns -1 once an image block began
NoErrorFromData == (pc = "ready" /\ hist.nth > 0) => res # -1

EndlessDiscard ==
  /\ pc = "ub" /\ hist.fault = "hang" /\ input.tail = <<>>
  /\ hist.calls = 1 /\ hist.rewinds = 0
  /\ rd.gif_buf_idx = rd.gif_buf_last_idx /\ rd.gif_buf[1] # 0

(***************************************************************************)
(* Graphic control state                                                   *)
(***************************************************************************)
\* the graphic control state the eight bytes at offset pos of the file
\* describe: introducer, label, size, packed, delay (two bytes), index, 0
ControlAt(pos) ==
  [disposal |-> (file[pos + 4] \div 4) % 4,
   input |-> 2 * ((file[pos + 4] \div 2) % 2),
   transparency |-> file[pos + 4] % 2,
   delay |-> file[pos + 5] + 256 * file[pos + 6],
   tindex |-> file[pos + 7]]

\* a step that changes the graphic control state is a pass of the block
\* loop over a graphic control block, and leaves the state that block holds
ControlStep ==
  gif'.gce # gif.gce =>
    /\ pc \in {"ready", "blocks"}
    /\ hist'.passes # hist.passes \/ hist'.calls # hist.calls
    /\ hist'.label = 249
    /\ (hist'.seppos >= 0 /\ hist'.seppos + 8 <= Len(file)) => gif'.gce = ControlAt(hist'.seppos)

\* a pass of the block loop over a graphic control block that lies in the
\* file leaves the state that block holds, whatever the state was
OverwriteStep ==
  (hist'.label = 249 /\ (hist'.passes # hist.passes \/ hist'.calls # hist.calls)
     /\ hist'.seppos >= 0 /\ hist'.seppos + 8 <= Len(file)) =>
    gif'.gce = ControlAt(hist'.seppos)

\* C17: delay, disposal, transparency flag and transparent index change
\* only when a graphic control extension is parsed, which overwrites all of
\* them; decoding an image, parsing other extensions and gd_rewind leave
\* them as they are.
ControlOnlyByExtension == [][ControlStep /\ OverwriteStep]_vars

\* the second frame was decoded with the state of the first graphic control
\* block, no such block standing before the second image
ControlKeptOverFrames ==
  /\ pc = "ready" /\ hist.frames = 2 /\ hist.rewinds = 0
  /\ Len(SelectSeq(input.blocks, LAMBDA b : b.kind = "gce")) = 1
  /\ gif.gce.delay = 300 /\ gif.gce.disposal = 2 /\ gif.gce.transparency = 1
  /\ gif.gce.tindex = 1

(***************************************************************************)
(* Files and sessions of playGif and playLoopingGif                        *)
(***************************************************************************)
\* the session playLoopingGif is playing
Held(i) == player.isInitialized /\ player.gif = i

ReleasedOnce(o) ==
  /\ o.closes = 1 /\ o.gif_frees = o.gifs /\ o.table_frees = o.gifs
  /\ o.buf_frees = o.bufs

NeverTwice(o) ==
  /\ o.closes <= 1 /\ o.gif_frees <= o.gifs /\ o.table_frees <= o.gifs
  /\ o.buf_frees <= o.bufs

\* C18: every file playGif or playLoopingGif opened is closed exactly once
\* when the call has left it, its session and frame buffer freed exactly
\* once if they were allocated; nothing is closed or freed twice.
ClosedExactlyOnce ==
  \A i \in 1..Len(player.files) :
    /\ NeverTwice(player.files[i])
    /\ ~Held(i) => ReleasedOnce(player.files[i])

\* the files of playGif are closed exactly once on each of its returns
PlayGifClosesOnce ==
  \A i \in 1..Len(player.files) :
    player.files[i].by = "playGif" => ReleasedOnce(player.files[i])

\* playLoopingGif closed a session a second time: the one whose frame
\* buffer it could not allocate
ClosedAgain ==
  /\ player.fault = "use_after_free"
  /\ \E i \in 1..Len(player.files) :
       /\ player.files[i].by = "playLoopingGif"
       /\ player.files[i].gif_frees = 2 /\ player.files[i].bufs = 0

\* a session playLoopingGif replaced by one of another filename
Replaced ==
  /\ player.fault = "none" /\ player.isInitialized /\ player.gif = 2
  /\ player.files[1].by = "playLoopingGif" /\ player.files[1].bufs = 1
  /\ player.files[1].name # player.files[2].name
  /\ ReleasedOnce(player.files[1])

(***************************************************************************)
(* Clicks in STATE_IDLE                                                    *)
(***************************************************************************)
Buttons == {"boot", "ext"}

\* a pass in STATE_IDLE that sees the release of b at most
\* DOUBLE_CLICK_WINDOW after it saw the release of b before enters
\* STATE_VOLUME_MENU
SecondRelease(b) ==
  (/\ sketch.currentState = "STATE_IDLE"
   /\ b \in sketch'.seen
   /\ sketch.last[b] <= DOUBLE_CLICK_WINDOW)
    => sketch'.currentState = "STATE_VOLUME_MENU"

\* C19: in STATE_IDLE two releases of the same button, the second at most
\* 500 ms after the first, enter STATE_VOLUME_MENU and start no game.
DoubleClickEntersMenu == [][\A b \in Buttons : SecondRelease(b)]_vars

Waiting(b) ==
  IF b = "boot"
  THEN sketch.waitingForSecondClick /\ InWindow(sketch.sinceRelease)
  ELSE sketch.waitingForSecondExternalClick /\ InWindow(sketch.sinceExternalRelease)

\* a release that checkDoubleClick sees while it waits for the second click
\* of that button enters STATE_VOLUME_MENU
SecondReleaseUnraced(b) ==
  (/\ sketch.currentState = "STATE_IDLE"
   /\ b \in sketch'.seen /\ ~sketch'.raced
   /\ Waiting(b))
    => sketch'.currentState = "STATE_VOLUME_MENU"

DoubleClickUnraced == [][\A b \in Buttons : SecondReleaseUnraced(b)]_vars

\* the second release of the boot button, one step of time after the first,
\* was seen by checkButtonRelease, the pin having changed after the read of
\* checkDoubleClick: the state is still STATE_IDLE
RacedSecondRelease ==
  /\ sketch.currentState = "STATE_IDLE" /\ sketch.seen = {"boot"} /\ sketch.raced
  /\ sketch.waitingForSecondClick /\ sketch.sinceRelease = Unit
  /\ InWindow(sketch.sinceRelease)

\* the release of a click was seen, no press since, and the player has left
ClickPending ==
  /\ sketch.currentState = "STATE_IDLE" /\ sketch.gone
  /\ ~sketch.showResetMessage
  /\ ~sketch.buttonHeld /\ ~sketch.externalButtonHeld
  /\ sketch.waitingForSecondClick \/ sketch.waitingForSecondExternalClick

\* while a click is pending the game starts only from an expired window
StartsAfterWindow ==
  (/\ sketch.currentState = "STATE_IDLE"
   /\ sketch'.currentState = "STATE_BOXING"
   /\ sketch.waitingForSecondClick \/ sketch.waitingForSecondExternalClick)
    => Expired(sketch) /\ sketch'.started = "expired"

HeldLong(s) ==
  \E b \in {"boot", "ext"} : s.low[b] /\ s.down[b] >= LONG_PRESS_DURATION

\* C21: the high score is reset only by a pass in STATE_IDLE, and only
\* while a button has been held down for at least 3000 ms
ResetOnlyByLongHold ==
  sketch.wiped => sketch.ran = "STATE_IDLE" /\ HeldLong(sketch)

(***************************************************************************)
(* The battery                                                             *)
(***************************************************************************)
\* the pass took a sample of the battery at or below 3.1 V
CriticalSample(s) ==
  s.sampled >= 0 /\ AtMost(s.sampled, BATTERY_CRITICAL_VOLTAGE)

\* C22: a pass of loop() that samples the battery at or below 3.1 V, in
\* whatever state, sets STATE_CRITICAL_BATTERY_SHUTDOWN, runs the case of
\* that state and no other, and ends in deep sleep
CriticalSampleSleeps ==
  CriticalSample(sketch) =>
    /\ sketch.currentState = "STATE_CRITICAL_BATTERY_SHUTDOWN"
    /\ sketch.ran = "STATE_CRITICAL_BATTERY_SHUTDOWN"
    /\ sketch.asleep

\* a critical sample while the low battery warning was on: asleep
CriticalWhileWarned ==
  CriticalSample(sketch) /\ sketch.lowBatteryWarning /\ sketch.asleep

(***************************************************************************)
(* The score                                                               *)
(***************************************************************************)
\* C23: calculateScore returns a score in 0..999 for every reading in
\* 0..4095 with the calibration factor 1.0, and currentScore is in 0..999
ScoreInRange == sketch.currentScore \in 0..999

\* the hardest punch scores 999
TopScore ==
  sketch.currentState = "STATE_RESULT" /\ sketch.currentScore = 999

(***************************************************************************)
(* The muted volume                                                        *)
(***************************************************************************)
\* C24: with the volume muted (currentVolume == 0) no play command is sent
\* to the DFPlayer
NoPlayWhenMuted == sketch.sentMuted = {}

\* the codes of an image refer to the entry that the code before them defines
KwKwK(codes, m) ==
  \E i \in 3..Len(codes) : codes[i] = Pow2(m) + i - 1

\* C25: decoding the code stream that the reference LZW encoder (clear code
\* first, dictionary growth, codes of the entry being defined included)
\* makes of a pixel sequence returns "frame decoded" and leaves exactly that
\* pixel sequence, in order, in the buffer.
LzwRoundTrip ==
  (pc = "ready" /\ hist.calls = 1
     /\ ImagesOf(input)[1].codes = LzwCodes(ImagesOf(input)[1].px, 2)) =>
    (res = 1 /\ LiteralAt(ImagesOf(input)[1]))

\* 1,1,1,1,1,1,0 was decoded from the codes 4, 1, 6, 7, 0, 5: 6 and 7 are
\* the entries being defined when they are read
LzwSelfReference ==
  /\ pc = "ready" /\ hist.calls = 1 /\ res = 1
  /\ ImagesOf(input)[1].px = <<1, 1, 1, 1, 1, 1, 0>>
  /\ ImagesOf(input)[1].codes = <<4, 1, 6, 7, 0, 5>>
  /\ KwKwK(ImagesOf(input)[1].codes, 2)
  /\ \A i \in 0..6 : frame[i] = IF i < 6 THEN 1 ELSE 0

\* the codes read for the image that are neither its clear nor its stop code
StringCodes == SelectSeq(hist.reads, LAMBDA r : r.key # dec.clear /\ r.key # dec.stop)

\* the strings emitted follow one another from output cursor 0 to the cursor
CursorAdvances ==
  /\ \A i \in 1..Len(hist.strs) :
       hist.strs[i].at = IF i = 1 THEN 0 ELSE hist.strs[i - 1].at + hist.strs[i - 1].len
  /\ dec.frm_off = IF hist.strs = <<>> THEN 0
                   ELSE hist.strs[Len(hist.strs)].at + hist.strs[Len(hist.strs)].len

\* C26: when gd_get_frame has returned "frame decoded", every code read from
\* the image's data that is neither the clear code nor the stop code, the very
\* first code of data that does not begin with a clear code included, has
\* emitted its string and advanced the output cursor by the string's length.
EveryCodeEmits ==
  (pc = "ready" /\ res = 1 /\ dec.active) =>
    /\ Len(hist.strs) = Len(StringCodes)
    /\ \A i \in 1..Len(hist.strs) : hist.strs[i].key = StringCodes[i].key
    /\ CursorAdvances

\* the i-th reader operation is a skip and a single read follows it
SkipThenRead(i) ==
  /\ i < Len(hist.ops) /\ hist.ops[i].kind = "skip" /\ hist.ops[i + 1].kind = "read"

\* C27: after a skip of n bytes issued at offset p of the source the next
\* byte delivered is the source byte at offset p + n; a skip that fits in the
\* bytes buffered does not touch the source, one that does not fit seeks the
\* source to p + n and leaves the buffer empty.
SkipDeliversTarget ==
  \A i \in 1..Len(hist.ops) :
    /\ SkipThenRead(i) => hist.ops[i + 1].b = file[hist.ops[i].p + hist.ops[i].n + 1]
    /\ (hist.ops[i].kind = "skip" /\ hist.ops[i].fits) => ~hist.ops[i].moved
    /\ (hist.ops[i].kind = "skip" /\ ~hist.ops[i].fits) =>
         (hist.ops[i].fd = hist.ops[i].p + hist.ops[i].n /\ hist.ops[i].empty)

RECURSIVE Consumed(_)
Consumed(ops) == IF ops = <<>> THEN 0 ELSE Head(ops).n + Consumed(Tail(ops))

\* C28: on an open stream, after any reads, 16-bit reads and skips, file_pos
\* is the offset in the source of the next byte to be delivered and the
\* number of bytes consumed; anim_start, recorded at open, is the offset of
\* the first block after the global colour table.
PositionIsOffset ==
  pc = "ready" =>
    /\ gif.anim_start = 13 + 3 * Pow2((file[11] % 8) + 1)
    /\ rd.file_pos = gif.anim_start + Consumed(hist.ops)
    /\ rd.file_pos = NextOffset(rd)

\* the codes read for the current (last) image, in order
KeysRead == [i \in 1..Len(hist.reads) |-> hist.reads[i].key]

\* C29: the codes extracted from the data of an image are the codes that
\* were packed, least significant bit first at the current width, into the
\* concatenation of the payload bytes, however the payload is split into
\* sub-blocks: a code that straddles a boundary is completed from the next
\* sub-block and no length byte is taken as code bits.
CodesIgnoreSplit ==
  (pc = "ready" /\ hist.calls = 1) =>
    (res = 1 /\ KeysRead = ImagesOf(input)[1].codes)

\* fourteen codes were read from seven sub-blocks of one byte: the third
\* and the thirteenth code straddle a boundary
OneByteSubBlocks ==
  /\ pc = "ready" /\ hist.calls = 1 /\ res = 1
  /\ ImagesOf(input)[1].split = <<1, 1, 1, 1, 1, 1, 1>>
  /\ Len(hist.reads) = 14 /\ KeysRead = ImagesOf(input)[1].codes
  /\ hist.reads[14].size = 5

\* the index in input.blocks of the k-th image block
ImageIndex(k) ==
  CHOOSE j \in 1..Len(input.blocks) :
    /\ input.blocks[j].kind = "image"
    /\ Cardinality({i \in 1..j : input.blocks[i].kind = "image"}) = k

\* the offset of the first byte after the k-th image block
ImageEnd(k) ==
  13 + 3 * Pow2((file[11] % 8) + 1) + Len(BlocksBytes(SubSeq(input.blocks, 1, ImageIndex(k))))

\* C30: after gd_get_frame has returned "frame decoded" the stream cursor is
\* at the first byte after the zero-length terminator of the image data, and
\* the next call decides on the marker byte of the next block, also when the
\* sub-block of the stop code holds payload bytes after the stop code.
CursorAfterTerminator ==
  /\ (pc = "ready" /\ res = 1 /\ hist.rewinds = 0) => NextOffset(rd) = ImageEnd(hist.frames)
  /\ (pc = "ready" /\ hist.calls = 2 /\ hist.rewinds = 0) => res = 1


\* the image block that the last gd_get_frame call decoded, when it decoded
\* one since open or the last rewind
Decoded == ImagesOf(input)[hist.blk]

\* C31: after gd_get_frame has decoded a frame the active palette is the
\* local table iff the descriptor of that image had the local-table flag
\* set, and the global table otherwise; the global table holds the colours
\* read at open in every state after open.
LocalTableOwnFrame ==
  /\ (pc = "ready" /\ res = 1 /\ hist.blk \in 1..Len(ImagesOf(input))) =>
       /\ (gif.palette = "lct") <=> (Decoded.local >= 0)
       /\ (gif.palette = "gct") <=> (Decoded.local < 0)
  /\ pc \in {"ready", "blocks", "decode"} => TableFromFile(gif.gct, 11, 13)

\* the second image, without a local table, was decoded after a first image
\* with a local table of four colours: the global table of two is active
GlobalAfterLocal ==
  /\ pc = "ready" /\ res = 1 /\ hist.blk = 2 /\ hist.rewinds = 0
  /\ ImagesOf(input)[1].local = 1 /\ Decoded.local = -1
  /\ gif.palette = "gct" /\ gif.lct.len = 4 /\ gif.gct.len = 2


\* C32: with a minimum code size m of at most 11, every code of a frame is
\* read with a width between m + 1 and 12 bits, whatever the codes and
\* wherever the clear codes are.
WidthInRange == dec.size >= dec.init_key_size /\ dec.size <= 12

\* the place in the blocks of the source of its k-th image block
ImagePlace(in, k) ==
  CHOOSE i \in 1..Len(in.blocks) :
    /\ in.blocks[i].kind = "image"
    /\ Cardinality({j \in 1..i : in.blocks[j].kind = "image"}) = k

\* the graphic control blocks before place i
ControlsBefore(in, i) == {j \in 1..(i - 1) : in.blocks[j].kind = "gce"}

\* the delay field in force at the k-th image: that of the last graphic
\* control block before it, 0 when there is none
DelayInForce(in, k) ==
  IF k < 1 \/ ControlsBefore(in, ImagePlace(in, k)) = {} THEN 0
  ELSE in.blocks[CHOOSE j \in ControlsBefore(in, ImagePlace(in, k)) :
                   \A l \in ControlsBefore(in, ImagePlace(in, k)) : l <= j].delay

\* C33: after the blit of the k-th decoded frame playGif waits 10 ms times
\* the delay field of the graphic control block in force for that frame
WaitsFrameDelay ==
  \A k \in 1..Len(player.delays) : player.delays[k] = 10 * DelayInForce(input, k)

\* C34: the session playLoopingGif keeps open delivers the frames of its
\* source in stream order, as it does alone, also when playGif opens and
\* plays another file through the same GifClass object between two of its
\* gd_get_frame calls
SessionsIndependent ==
  (player.active = "loop" /\ pc = "ready"
     /\ hist.calls >= 1 /\ hist.calls <= Len(ImagesOf(input))) =>
    (hist.frames = hist.calls /\ DecodedBlock(ImagesOf(input)[hist.calls]))

\* C35: between two passes of loop(), STATE_BOXING implies waitingForPunch,
\* so that a reading below 3800 in STATE_BOXING leads to STATE_RESULT
BoxingWaitsForPunch ==
  sketch.currentState = "STATE_BOXING" => sketch.waitingForPunch

\* C36: when the game leaves STATE_RESULT for STATE_IDLE or STATE_BOXING,
\* the high score is at least the score of the round just finished
ScoredOnLeavingResult ==
  [][(sketch.currentState = "STATE_RESULT"
        /\ sketch'.currentState \in {"STATE_IDLE", "STATE_BOXING"}) =>
       sketch'.highScore >= sketch'.currentScore]_vars

\* C37: once the low-battery warning has ended in STATE_IDLE, a pass of
\* loop() does not enter STATE_LOW_BATTERY_WARNING again unless a battery
\* sample newly raises the flag: not while the flag is still set from before
WarningNotReentered ==
  [][(sketch.currentState = "STATE_IDLE" /\ sketch.lowBatteryWarning) =>
       sketch'.ran # "STATE_LOW_BATTERY_WARNING"]_vars

\* C38: after the volume menu was left by a long press, the release of
\* that press neither starts a game nor counts as the first click of a
\* double-click
ReleaseAfterExitIgnored ==
  (sketch.gone /\ sketch.currentState # "STATE_VOLUME_MENU") =>
    /\ sketch.currentState # "STATE_BOXING"
    /\ ~sketch.waitingForSecondClick /\ ~sketch.waitingForSecondExternalClick

\* C39: after every reader operation 0 <= gif_buf_idx <= gif_buf_last_idx
\* <= GIF_BUF_SIZE, also when the reads reach the end of the source
ReaderIndexBounds ==
  /\ 0 <= rd.gif_buf_idx /\ rd.gif_buf_idx <= rd.gif_buf_last_idx
  /\ rd.gif_buf_last_idx <= GIF_BUF_SIZE

\* C40: every code looked up in the dictionary during a frame decode (each
\* code read in the loop that is neither the clear nor the stop code) is an
\* index below the entry count at that time: a root code or an entry added
\* since the last clear
LookupsBelowCount ==
  \A i \in 2..Len(hist.reads) :
    hist.reads[i].key \notin {dec.clear, dec.stop} =>
      hist.reads[i].key < hist.reads[i].n
====
